---- MODULE Spec2Model ----
(***************************************************************************)
(* Model of the Visual AutoView core: the automation graph parser          *)
(* (custom_components/visualautoview/graph_parser.py) and the dependency   *)
(* graph engine (services/dependency_graph_service.py).                    *)
(***************************************************************************)
EXTENDS Integers, Sequences, FiniteSets, TLC

(***************************************************************************)
(* Python values.  The value found under a key of a mapping is one of:     *)
(* the key is absent, the value is a mapping, the value is a list.         *)
(* Every mapping is a record [k, body, alt]: k names the mapping's shape,  *)
(* body and alt are the values of its nested keys.                         *)
(***************************************************************************)
Absent == [f |-> "absent", v |-> <<>>]

Bare(m) == [f |-> "map", v |-> <<m>>]

List(s) == [f |-> "list", v |-> s]

\* a text found under a key
Text(t) == [f |-> "str", v |-> <<t>>]

\* mapping.get(key, default) for a key that holds a text when present
Get(x, default) == IF x.f = "absent" THEN default ELSE x.v[1]

\* the empty mapping {}
EmptyMap == [k |-> "empty", body |-> Absent, alt |-> Absent]

\* an item that is a text instead of a mapping, such as "light.turn_on"
TextItem == [k |-> "text", body |-> Absent, alt |-> Absent]

\* an item that is None instead of a mapping
NoneItem == [k |-> "none", body |-> Absent, alt |-> Absent]

\* isinstance(item, dict)
IsMapping(item) == item.k \notin {"text", "none"}

\* isinstance(x, list); an absent key read with .get(key, []) is the list []
IsList(x) == x.f # "map"

\* Python truthiness of a value: None, {} and [] are falsy
Truthy(x) ==
    CASE x.f = "absent" -> FALSE
      [] x.f = "map" -> x.v[1].k \notin {"empty", "none"}
      [] x.f = "list" -> Len(x.v) > 0

\* a.get(plural) or a.get(singular, [])
GetOr(plural, singular) == IF Truthy(plural) THEN plural ELSE singular

\* if not isinstance(x, list): x = [x]
WrapAlways(x) == IF IsList(x) THEN x.v ELSE <<x.v[1]>>

\* if not isinstance(x, list): x = [x] if x else []
WrapIfTruthy(x) == IF IsList(x) THEN x.v ELSE IF Truthy(x) THEN <<x.v[1]>> ELSE <<>>

\* statement order: x is computed first, then F runs on its value
Then(x, F(_)) == CHOOSE y \in {F(v) : v \in {x}} : TRUE

(***************************************************************************)
(* Graph data model                                                        *)
(***************************************************************************)
COMP_TYPE_TRIGGER == "trigger"

COMP_TYPE_CONDITION == "condition"

COMP_TYPE_ACTION == "action"

COMP_TYPE_METADATA == "metadata"

\* the label None of an edge
NoLabel == "None"

AutomationNode(id, label, type, data) ==
    [id |-> id, label |-> label, type |-> type, data |-> data]

AutomationEdge(from_node, to_node, label) ==
    [from |-> from_node, to |-> to_node, label |-> label]

\* AutomationGraph(): no nodes, no edges
EmptyGraph == [nodes |-> <<>>, edges |-> <<>>]

\* payload of a construct's own node: {"type": ...}
TypeData(t) == [k |-> t, body |-> Absent, alt |-> Absent]

(***************************************************************************)
(* A running parse_automation call: the graph under construction and       *)
(* reads, the values that the call's successive evaluations of             *)
(* self._node_counter in _generate_node_id will yield.                     *)
(***************************************************************************)
\* most node ids one call of the model generates
MaxNodes == 24

\* the reads of a call that runs with no other call on its parser: each
\* `self._node_counter += 1` is followed by the read of the value it stored
AloneReads(counter) == [i \in 1..MaxNodes |-> counter + i]

\* raised: an exception left the code the call was running
NewCall(reads) == [nodes |-> <<>>, edges |-> <<>>, reads |-> reads, raised |-> FALSE]

\* item.get(...) on a text or on None raises AttributeError, `key in None`
\* raises TypeError
Raise(st) == [st EXCEPT !.raised = TRUE]

\* a variant of GenerateNodeId that leaves the counter as it is
GenerateNodeIdStuck(st, prefix) ==
    [id |-> [prefix |-> prefix, n |-> Head(st.reads)], st |-> st]

\* _generate_node_id(prefix): f"{prefix}_{self._node_counter}"
GenerateNodeId(st, prefix) ==
    [id |-> [prefix |-> prefix, n |-> Head(st.reads)],
     st |-> [st EXCEPT !.reads = Tail(@)]]

AddNode(st, node) == [st EXCEPT !.nodes = Append(@, node)]

AddEdge(st, from_node, to_node, label) ==
    [st EXCEPT !.edges = Append(@, AutomationEdge(from_node, to_node, label))]

(***************************************************************************)
(* _extract_metadata, _extract_triggers, _extract_conditions               *)
(***************************************************************************)
\* label of the metadata node of a definition without an alias
DefaultAlias == "Automation"

\* automation_id of a definition without an id
DefaultId == "unknown"

\* description of a definition without a description
DefaultDescription == ""

\* payload of the metadata node: {"automation_id", "alias", "description"}
MetadataData(automation_id, alias, description) ==
    [k |-> "metadata", body |-> Absent, alt |-> Absent,
     automation_id |-> automation_id, alias |-> alias, description |-> description]

\* a variant of ExtractMetadata that labels the node with the alias as found
ExtractMetadataAsFound(cfg, st) ==
    LET g == GenerateNodeId(st, "metadata")
        alias == Get(cfg.alias, "")
        description == Get(cfg.description, DefaultDescription)
        automation_id == Get(cfg.id, DefaultId)
    IN  [st |-> AddNode(g.st, AutomationNode(g.id, alias, COMP_TYPE_METADATA,
                                             MetadataData(automation_id, alias, description))),
         id |-> g.id, automation_id |-> automation_id, alias |-> alias]

ExtractMetadata(cfg, st) ==
    LET g == GenerateNodeId(st, "metadata")
        alias == Get(cfg.alias, DefaultAlias)
        description == Get(cfg.description, DefaultDescription)
        automation_id == Get(cfg.id, DefaultId)
    IN  [st |-> AddNode(g.st, AutomationNode(g.id, alias, COMP_TYPE_METADATA,
                                             MetadataData(automation_id, alias, description))),
         id |-> g.id, automation_id |-> automation_id, alias |-> alias]

\* the list _extract_triggers iterates over
TriggerItems(cfg) == WrapAlways(GetOr(cfg.triggers, cfg.trigger))

\* the list _extract_conditions iterates over
ConditionItems(cfg) == WrapIfTruthy(GetOr(cfg.conditions, cfg.condition))

\* the list _extract_actions iterates over
ActionItems(cfg) == WrapIfTruthy(GetOr(cfg.actions, cfg.action))

\* _format_trigger_label, _format_condition_label, _format_action_label: a
\* text made from the item's shape, or "<kind> #<index + 1>" for a mapping
\* that gives no hint (the labels are cosmetic)
FormatLabel(kind, item, index) ==
    IF item.k = "empty" THEN kind \o " #" \o ToString(index + 1)
    ELSE kind \o ": " \o item.k

RECURSIVE ExtractItems(_, _, _, _, _)
\* the loop of _extract_triggers / _extract_conditions from item i on
ExtractItems(items, i, st, ids, type) ==
    IF i > Len(items) \/ st.raised THEN [st |-> st, ids |-> ids]
    ELSE LET g == GenerateNodeId(st, type)
             node == AutomationNode(g.id, FormatLabel(type, items[i], i - 1), type, items[i])
         IN  IF ~IsMapping(items[i]) THEN [st |-> Raise(g.st), ids |-> ids]
             ELSE Then(AddNode(g.st, node),
                       LAMBDA s : ExtractItems(items, i + 1, s, Append(ids, g.id), type))

ExtractTriggers(cfg, st) == ExtractItems(TriggerItems(cfg), 1, st, <<>>, COMP_TYPE_TRIGGER)

ExtractConditions(cfg, st) ==
    ExtractItems(ConditionItems(cfg), 1, st, <<>>, COMP_TYPE_CONDITION)

(***************************************************************************)
(* _process_action_recursive                                               *)
(***************************************************************************)
\* a variant of ChainIds that adds no edge
ChainIdsNone(st, seq_ids, i) == st

RECURSIVE ChainIds(_, _, _)
\* for i in range(len(seq_ids) - 1): edge seq_ids[i] -> seq_ids[i + 1]
ChainIds(st, seq_ids, i) ==
    IF i >= Len(seq_ids) THEN st
    ELSE ChainIds(AddEdge(st, seq_ids[i], seq_ids[i + 1], NoLabel), seq_ids, i + 1)

\* the node a construct or a leaf action gets for itself
OwnNode(action, index, id) ==
    CASE action.k = "choose" ->
            AutomationNode(id, "Choose/If-Then", COMP_TYPE_ACTION, TypeData("choose"))
      [] action.k = "if" -> AutomationNode(id, "If: condition", COMP_TYPE_CONDITION, EmptyMap)
      [] action.k = "parallel" ->
            AutomationNode(id, "Parallel Actions", COMP_TYPE_ACTION, TypeData("parallel"))
      [] action.k = "repeat" -> AutomationNode(id, "Repeat", COMP_TYPE_ACTION, TypeData("repeat"))
      [] OTHER -> AutomationNode(id, FormatLabel("Action", action, index), COMP_TYPE_ACTION, action)

\* One nested sequence of a construct, in the order the code walks them.
\* branch: whether the sequence hangs from a branch node of its own (choose)
\* that an edge labeled edge joins to the construct's node; first: the label
\* of the edge into the first node of the sequence.
\* raises: reading the branch raises, after the id of its node was generated.
Section(branch, edge, label, data, sequence, first, raises) ==
    [branch |-> branch, edge |-> edge, label |-> label, data |-> data,
     sequence |-> sequence, first |-> first, raises |-> raises]

\* choice.get(...) of a choice that is no mapping, or cond.get(...) in
\* _summarize_conditions of a single condition that is no mapping
ChoiceRaises(choice) ==
    LET conditions == WrapIfTruthy(GetOr(choice.alt, Absent))
    IN  ~IsMapping(choice) \/ (Len(conditions) = 1 /\ ~IsMapping(conditions[1]))

\* a variant of ChoiceSection that numbers the options from 0
ChoiceSectionFromZero(choice, i) ==
    Section(TRUE, "option " \o ToString(i - 1), "Branch " \o ToString(i), EmptyMap,
            WrapIfTruthy(choice.body), NoLabel, ChoiceRaises(choice))

\* the branch of choice i of a choose list
ChoiceSection(choice, i) ==
    LET conditions == WrapIfTruthy(GetOr(choice.alt, Absent))
        branch_label == IF conditions # <<>> THEN "If: " \o conditions[1].k
                        ELSE "Branch " \o ToString(i)
    IN  Section(TRUE, "option " \o ToString(i), branch_label,
                IF conditions # <<>> THEN conditions[1] ELSE EmptyMap,
                WrapIfTruthy(choice.body), NoLabel, ChoiceRaises(choice))

\* the nested sequences of an action, by the key the action holds:
\* choose (and default), if (then, else), parallel, repeat; none for a leaf
Sections(action) ==
    CASE action.k = "choose" ->
            LET choose_list == WrapAlways(action.body)
            IN  [i \in 1..Len(choose_list) |-> ChoiceSection(choose_list[i], i)]
                \o (IF action.alt.f = "absent" THEN <<>>
                    ELSE <<Section(TRUE, "else", "Default/Else", TypeData("default"),
                                   WrapIfTruthy(action.alt), NoLabel, FALSE)>>)
      [] action.k = "if" ->
            (IF action.body.f = "absent" THEN <<>>
             ELSE <<Section(FALSE, NoLabel, "", EmptyMap, WrapIfTruthy(action.body), "then", FALSE)>>)
            \o (IF action.alt.f = "absent" THEN <<>>
                ELSE <<Section(FALSE, NoLabel, "", EmptyMap, WrapIfTruthy(action.alt), "else", FALSE)>>)
      [] action.k = "parallel" ->
            LET parallel_sequences == IF action.body.f = "list" THEN action.body.v
                                      ELSE <<action.body>>
            IN  [i \in 1..Len(parallel_sequences) |->
                    Section(FALSE, NoLabel, "", EmptyMap,
                            WrapIfTruthy(parallel_sequences[i]), "thread " \o ToString(i),
                            FALSE)]
      [] action.k = "repeat" ->
            <<Section(FALSE, NoLabel, "", EmptyMap, WrapIfTruthy(action.body), "loop", FALSE)>>
      [] OTHER -> <<>>

\* a variant of LinkItem whose first edge runs from the item back to prev_id
LinkItemBack(r, prev_id, label) ==
    IF r.ids = <<>> THEN r.st
    ELSE ChainIds(AddEdge(r.st, r.ids[1], prev_id, label), r.ids, 1)

\* the edges a processed sequence item gets: prev_id -> seq_ids[0], then the
\* item's ids chained
LinkItem(r, prev_id, label) ==
    IF r.ids = <<>> THEN r.st
    ELSE ChainIds(AddEdge(r.st, prev_id, r.ids[1], label), r.ids, 1)

\* a variant of NextPrev that keeps prev_id at the head of the sequence
NextPrevStay(r, prev_id) == prev_id

\* prev_id = seq_ids[-1] when the item gave ids
NextPrev(r, prev_id) == IF r.ids = <<>> THEN prev_id ELSE r.ids[Len(r.ids)]

\* a variant of OpenSection that adds the edge to the branch but not its node
OpenSectionNoNode(sec, st, own_id) ==
    IF sec.branch
    THEN LET g == GenerateNodeId(st, "action")
         IN  [st |-> AddEdge(g.st, own_id, g.id, sec.edge), head |-> g.id]
    ELSE [st |-> st, head |-> own_id]

\* the branch node of a choose section and the edge to it
OpenSection(sec, st, own_id) ==
    IF sec.branch
    THEN LET g == GenerateNodeId(st, "action")
         IN  IF sec.raises THEN [st |-> Raise(g.st), head |-> g.id] ELSE
             [st |-> AddEdge(AddNode(g.st, AutomationNode(g.id, sec.label,
                                                          COMP_TYPE_CONDITION, sec.data)),
                             own_id, g.id, sec.edge),
              head |-> g.id]
    ELSE [st |-> st, head |-> own_id]

RECURSIVE ProcessActionRecursive(_, _, _)
RECURSIVE ProcessSequence(_, _, _, _, _, _)
RECURSIVE ProcessSections(_, _, _, _)

\* the loop over a nested sequence from item i on: prev_id starts as
\* head_id (the branch node, or the construct's node); the edge that leaves
\* head_id carries first_label, every other edge is unlabeled
ProcessSequence(sequence, i, st, prev_id, head_id, first_label) ==
    IF i > Len(sequence) \/ st.raised THEN st
    ELSE Then(ProcessActionRecursive(sequence[i], i - 1, st),
              LAMBDA r :
                ProcessSequence(sequence, i + 1,
                                LinkItem(r, prev_id,
                                         IF prev_id = head_id THEN first_label ELSE NoLabel),
                                NextPrev(r, prev_id), head_id, first_label))

\* the nested sequences of one construct from section i on
ProcessSections(sections, i, st, own_id) ==
    IF i > Len(sections) \/ st.raised THEN st
    ELSE LET o == OpenSection(sections[i], st, own_id)
         IN  Then(ProcessSequence(sections[i].sequence, 1, o.st, o.head, o.head,
                                  sections[i].first),
                  LAMBDA s : ProcessSections(sections, i + 1, s, own_id))

\* `"choose" in action` raises for None before an id is generated; a text
\* that holds none of the construct keys is a leaf ("Action: <text>")
ProcessActionRecursive(action, index, st) ==
    LET g == GenerateNodeId(st, "action")
    IN  IF action.k = "none" THEN [st |-> Raise(st), ids |-> <<>>] ELSE
        Then(AddNode(g.st, OwnNode(action, index, g.id)),
             LAMBDA s : [st |-> ProcessSections(Sections(action), 1, s, g.id),
                         ids |-> <<g.id>>])

RECURSIVE ExtractActionsFrom(_, _, _, _)
\* the loop of _extract_actions from item i on
ExtractActionsFrom(actions, i, st, action_ids) ==
    IF i > Len(actions) \/ st.raised THEN [st |-> st, ids |-> action_ids]
    ELSE Then(ProcessActionRecursive(actions[i], i - 1, st),
              LAMBDA r : ExtractActionsFrom(actions, i + 1, r.st, action_ids \o r.ids))

ExtractActions(cfg, st) == ExtractActionsFrom(ActionItems(cfg), 1, st, <<>>)

(***************************************************************************)
(* _build_edges                                                            *)
(***************************************************************************)
\* a variant of EdgesFromEach that joins only the first source
EdgesFromFirst(st, from_ids, i, to_id, label) ==
    IF from_ids = <<>> THEN st ELSE AddEdge(st, from_ids[1], to_id, label)

RECURSIVE EdgesFromEach(_, _, _, _, _)
\* for x in from_ids: edge x -> to_id
EdgesFromEach(st, from_ids, i, to_id, label) ==
    IF i > Len(from_ids) THEN st
    ELSE EdgesFromEach(AddEdge(st, from_ids[i], to_id, label), from_ids, i + 1, to_id, label)

RECURSIVE EdgesToEach(_, _, _, _)
\* for x in to_ids: edge from_id -> x
EdgesToEach(st, from_id, to_ids, i) ==
    IF i > Len(to_ids) THEN st
    ELSE EdgesToEach(AddEdge(st, from_id, to_ids[i], NoLabel), from_id, to_ids, i + 1)

RECURSIVE ChainLabeledShort(_, _, _, _)
\* a variant of ChainLabeled that stops one pair early
ChainLabeledShort(st, ids, i, label) ==
    IF i >= Len(ids) - 1 THEN st
    ELSE ChainLabeledShort(AddEdge(st, ids[i], ids[i + 1], label), ids, i + 1, label)

RECURSIVE ChainLabeled(_, _, _, _)
\* for i in range(len(ids) - 1): edge ids[i] -> ids[i + 1] with a label
ChainLabeled(st, ids, i, label) ==
    IF i >= Len(ids) THEN st
    ELSE ChainLabeled(AddEdge(st, ids[i], ids[i + 1], label), ids, i + 1, label)

BuildEdges(st, metadata_id, trigger_ids, condition_ids, action_ids) ==
    LET st1 == EdgesToEach(st, metadata_id, trigger_ids, 1)
        st2 == IF condition_ids # <<>>
               THEN LET a == EdgesFromEach(st1, trigger_ids, 1, condition_ids[1], "if")
                        b == ChainLabeled(a, condition_ids, 1, "AND")
                    IN  IF action_ids # <<>>
                        THEN AddEdge(b, condition_ids[Len(condition_ids)], action_ids[1], "then")
                        ELSE b
               ELSE IF action_ids # <<>>
                    THEN EdgesFromEach(st1, trigger_ids, 1, action_ids[1], NoLabel)
                    ELSE st1
    IN  ChainIds(st2, action_ids, 1)

(***************************************************************************)
(* parse_automation: the body of the call after `self._node_counter = 0`,  *)
(* run on the reads the call makes of the counter.  The outcome is the     *)
(* graph returned, or raised with no graph when an extraction step raised  *)
(* (except Exception: log and raise).                                      *)
(***************************************************************************)
ParseWithReads(cfg, reads) ==
    Then(ExtractMetadata(cfg, NewCall(reads)), LAMBDA m :
    Then(ExtractTriggers(cfg, m.st), LAMBDA t :
    Then(ExtractConditions(cfg, t.st), LAMBDA c :
    Then(ExtractActions(cfg, c.st), LAMBDA a :
    Then(IF a.st.raised THEN a.st ELSE BuildEdges(a.st, m.id, t.ids, c.ids, a.ids), LAMBDA e :
        IF e.raised
        THEN [nodes |-> <<>>, edges |-> <<>>,
              metadata |-> [automation_id |-> m.automation_id, alias |-> m.alias],
              trigger_ids |-> <<>>, condition_ids |-> <<>>, action_ids |-> <<>>,
              generated |-> Len(reads) - Len(e.reads), raised |-> TRUE]
        ELSE [nodes |-> e.nodes, edges |-> e.edges,
              metadata |-> [automation_id |-> m.automation_id, alias |-> m.alias],
              trigger_ids |-> t.ids, condition_ids |-> c.ids, action_ids |-> a.ids,
              generated |-> Len(reads) - Len(e.reads), raised |-> FALSE])))))

\* a variant of ResetCounter that keeps the counter of the call before
KeepCounter(counter) == counter

\* self._node_counter = 0 at the start of parse_automation
ResetCounter(counter) == 0

\* parser.parse_automation(cfg) with no other call running on the parser:
\* the returned graph and the value the call leaves in _node_counter
ParseAutomation(cfg, counter) ==
    LET start == ResetCounter(counter)
        g == ParseWithReads(cfg, AloneReads(start))
    IN  [graph |-> g, counter |-> start + g.generated]

\* AutomationGraphParser.__init__: self._node_counter = 0
NewParserCounter == 0

\* the module-level parse_automation(cfg): a new parser for the one call
ParseAutomationFresh(cfg) == ParseAutomation(cfg, NewParserCounter).graph

(***************************************************************************)
(* Automation definitions the parser is run on                             *)
(***************************************************************************)
Item(kind) == [k |-> kind, body |-> Absent, alt |-> Absent]

\* {"platform": "state", ...}
Trig == Item("state")

\* {"condition": "state", ...}
Cond == Item("cond")

\* {"service": ..., ...}
Service == Item("service")

\* one entry of a choose list: {"conditions": conds, "sequence": seq}
Choice(conds, seq) == [k |-> "choice", body |-> seq, alt |-> conds]

\* {"choose": choices, "default": default}
Choose(choices, default) == [k |-> "choose", body |-> choices, alt |-> default]

\* {"if": ..., "then": then, "else": else}
IfThen(then, else) == [k |-> "if", body |-> then, alt |-> else]

\* {"parallel": sequences}
Parallel(sequences) == [k |-> "parallel", body |-> sequences, alt |-> Absent]

\* {"repeat": {"count": ..., "sequence": seq}}
Repeat(seq) == [k |-> "repeat", body |-> seq, alt |-> Absent]

\* longest list of triggers, of conditions and of leaf actions tried
MaxItems == 2

RECURSIVE Copies(_, _)
\* the list [x, x, ..., x] of length n
Copies(x, n) == IF n = 0 THEN <<>> ELSE Append(Copies(x, n - 1), x)

\* the shapes a field holding items like x takes: absent, a bare mapping
\* (empty or not), a list of 0..MaxItems items, a list holding {}
FieldShapes(x) ==
    {Absent, Bare(EmptyMap), Bare(x), List(<<EmptyMap>>)}
        \cup {List(Copies(x, n)) : n \in 0..MaxItems}

\* nested sequences of leaf actions
LeafSeqs == {Bare(Service)} \cup {List(Copies(Service, n)) : n \in 0..MaxItems}

OneLeaf == List(<<Service>>)

\* control constructs over leaf actions
Constructs1 ==
    {Choose(c, d) :
        c \in {List(<<>>)} \cup {Bare(Choice(Absent, s)) : s \in LeafSeqs}
              \cup {List(<<Choice(Absent, s)>>) : s \in LeafSeqs}
              \cup {List(<<Choice(List(<<Cond>>), s), Choice(Absent, OneLeaf)>>) : s \in LeafSeqs},
        d \in {Absent} \cup LeafSeqs}
    \cup {IfThen(t, e) : t \in {Absent} \cup LeafSeqs, e \in {Absent} \cup LeafSeqs}
    \cup {Parallel(p) :
            p \in {List(<<>>), Bare(Service)}
                  \cup {List(<<s>>) : s \in LeafSeqs}
                  \cup {List(<<s, OneLeaf>>) : s \in LeafSeqs}}
    \cup {Repeat(s) : s \in {Absent} \cup LeafSeqs}

\* one construct of each kind, to nest in another one
Nested1 ==
    {Choose(List(<<Choice(Absent, OneLeaf)>>), OneLeaf), IfThen(OneLeaf, OneLeaf),
     Parallel(List(<<OneLeaf, OneLeaf>>)), Repeat(OneLeaf)}

\* sequences that hold a nested construct
NestedSeqs ==
    UNION {{List(<<x>>), List(<<Service, x>>), List(<<x, Service>>)} : x \in Nested1}

\* control constructs over nested constructs
Constructs2 ==
    {Choose(List(<<Choice(Absent, s)>>), OneLeaf) : s \in NestedSeqs}
    \cup {Choose(List(<<Choice(Absent, OneLeaf)>>), s) : s \in NestedSeqs}
    \cup {IfThen(s, OneLeaf) : s \in NestedSeqs}
    \cup {IfThen(OneLeaf, s) : s \in NestedSeqs}
    \cup {Parallel(List(<<s, OneLeaf>>)) : s \in NestedSeqs}
    \cup {Repeat(s) : s \in NestedSeqs}

Config(alias, trigger, condition, action) ==
    [alias |-> Text(alias), description |-> Text("about " \o alias), id |-> Text("id " \o alias),
     trigger |-> trigger, triggers |-> Absent,
     condition |-> condition, conditions |-> Absent,
     action |-> action, actions |-> Absent]

\* the same definition spelled with the keys triggers, conditions, actions
Plural(cfg) ==
    [alias |-> cfg.alias, description |-> cfg.description, id |-> cfg.id,
     trigger |-> Absent, triggers |-> cfg.trigger,
     condition |-> Absent, conditions |-> cfg.condition,
     action |-> Absent, actions |-> cfg.action]

\* definitions that vary the shape of the three fields
ShapeConfigs ==
    {Config("t", t, c, a) :
        t \in FieldShapes(Trig), c \in FieldShapes(Cond), a \in FieldShapes(Service)}

\* definitions that vary the actions
ActionConfigs ==
    {Config("t", List(<<Trig, Trig>>), c, List(<<x>>)) :
        c \in {Absent, List(<<Cond, Cond>>)}, x \in Constructs1 \cup Constructs2}
    \cup {Config("t", Bare(Trig), Absent, a) :
            a \in UNION {{Bare(x), List(<<Service, x>>), List(<<x, Service>>), List(<<x, x>>),
                           List(<<x, Service, x>>)} :
                            x \in Nested1}}

\* the definition cfg without the keys named in keys
Without(cfg, keys) ==
    [key \in DOMAIN cfg |-> IF key \in keys THEN Absent ELSE cfg[key]]

\* the definition {}
EmptyConfig ==
    Without(Config("t", Absent, Absent, Absent), {"alias", "description", "id"})

\* definitions that lack some of alias, description and id
MissingConfigs ==
    {Without(c, keys) :
        c \in {Config("t", Absent, Absent, Absent),
               Config("t", List(<<Trig>>), Absent, List(<<Service>>)),
               Config("t", Bare(Trig), List(<<Cond>>), Absent),
               Config("t", Absent, Absent, List(<<IfThen(OneLeaf, OneLeaf)>>))},
        keys \in SUBSET {"alias", "description", "id"}}

Configs ==
    ShapeConfigs \cup {Plural(c) : c \in ShapeConfigs} \cup ActionConfigs \cup MissingConfigs

\* items that are not mappings
BadItems == {TextItem, NoneItem}

\* the lists of items like x that hold the item bad
BadLists(x, bad) ==
    {Bare(bad), List(<<bad>>), List(<<x, bad>>), List(<<bad, x>>), List(<<x, bad, x>>)}

\* constructs with the item bad as a choose branch, as the single condition
\* of a branch, or as an item of a nested sequence
BadConstructs(bad) ==
    {Choose(Bare(bad), Absent),
     Choose(List(<<bad, Choice(List(<<Cond>>), OneLeaf)>>), OneLeaf),
     Choose(List(<<Choice(Absent, OneLeaf), bad>>), Absent),
     Choose(List(<<Choice(List(<<bad>>), OneLeaf)>>), Absent)}
    \cup UNION {{Choose(List(<<Choice(Absent, seq)>>), Absent), Choose(List(<<>>), seq),
                 IfThen(seq, OneLeaf), IfThen(OneLeaf, seq),
                 Parallel(List(<<OneLeaf, seq>>)), Repeat(seq)} :
                    seq \in {List(<<bad>>), List(<<Service, bad, Service>>)}}

\* definitions in which one item is not a mapping
UnexpectedConfigs ==
    UNION {{Config("t", t, c, OneLeaf) : t \in BadLists(Trig, bad), c \in {Absent, List(<<Cond>>)}}
           \cup {Config("t", List(<<Trig>>), c, OneLeaf) : c \in BadLists(Cond, bad)}
           \cup {Config("t", List(<<Trig>>), Absent, a) : a \in BadLists(Service, bad)}
           \cup {Config("t", List(<<Trig>>), Absent, List(<<Service, x>>)) :
                    x \in BadConstructs(bad)} :
        bad \in BadItems}

(***************************************************************************)
(* State                                                                   *)
(***************************************************************************)
VARIABLES
    config,        \* the automation definition under test
    node_counter,  \* _node_counter of the AutomationGraphParser the calls share
    returned,      \* the outcomes of the parse calls on config, in call order
    other,         \* the last other definition parsed on the parser, and its graph
    calls,         \* the parse_automation calls that run at the same time
    automations,   \* hass.data["automation"]: the stored automations, in order
    stack,         \* the nested calls of the dependency engine, outermost first
    result,        \* what the last call of the dependency engine returned
    dependency_cache,  \* DependencyGraphService._dependency_cache
    requests,      \* calls a client made of the dependency engine
    changes,       \* changes made to hass.data["automation"] between the calls
    definitions,   \* the automations the listing endpoint goes through, in order
    params,        \* the parameters of the listing request
    automation_list,   \* automation_list of the listing endpoint
    listed,        \* the automations the loop of the listing endpoint went through
    response       \* the response of the listing endpoint

parser_vars == <<config, returned, other>>

engine_vars == <<automations, stack, result, dependency_cache, requests, changes>>

\* the variables of the listing endpoint
listing_vars == <<definitions, params, automation_list, listed, response>>

\* the variables of the parser, which the dependency engine leaves alone
parser_side == <<config, node_counter, returned, other, calls>>

vars == <<config, node_counter, returned, other, calls,
          automations, stack, result, dependency_cache, requests, changes,
          definitions, params, automation_list, listed, response>>

\* DependencyGraphService.__init__: self._dependency_cache = None
NoCache == [set |-> FALSE]

(***************************************************************************)
(* Python floats (IEEE 754 binary64, round to nearest, ties to even).  A   *)
(* float is 0.0 (no bits) or 0.b1 b2 ... b53 times 2^exp with b1 = 1.  The *)
(* values are quotients and products of counts of automations and edges,   *)
(* far from overflow and underflow.                                        *)
(***************************************************************************)
\* the binary digits of the significand of a float
MantissaBits == 53

\* 0.0
FloatZero == [exp |-> 0, bits |-> <<>>]

\* the float next above x (x > 0)
NextUp(x) ==
    IF \A i \in DOMAIN x.bits : x.bits[i] = 1
    THEN [exp |-> x.exp + 1, bits |-> [i \in DOMAIN x.bits |-> IF i = 1 THEN 1 ELSE 0]]
    ELSE LET last == CHOOSE i \in DOMAIN x.bits :
                        x.bits[i] = 0 /\ \A j \in DOMAIN x.bits : j > i => x.bits[j] = 1
         IN  [exp |-> x.exp,
              bits |-> [i \in DOMAIN x.bits |->
                           IF i < last THEN x.bits[i] ELSE IF i = last THEN 1 ELSE 0]]

\* the float next below x (x > 0 and not the least float)
NextDown(x) ==
    IF \A i \in DOMAIN x.bits : i > 1 => x.bits[i] = 0
    THEN [exp |-> x.exp - 1, bits |-> [i \in DOMAIN x.bits |-> 1]]
    ELSE LET last == CHOOSE i \in DOMAIN x.bits :
                        x.bits[i] = 1 /\ \A j \in DOMAIN x.bits : j > i => x.bits[j] = 0
         IN  [exp |-> x.exp,
              bits |-> [i \in DOMAIN x.bits |->
                           IF i < last THEN x.bits[i] ELSE IF i = last THEN 0 ELSE 1]]

\* the float nearest to 0.bits times 2^exp (bits[1] = 1, any length;
\* sticky: the exact value has further digits that are not all 0)
RoundToNearest(exp, bits, sticky) ==
    LET kept == [i \in 1..MantissaBits |-> IF i <= Len(bits) THEN bits[i] ELSE 0]
        guard == IF Len(bits) > MantissaBits THEN bits[MantissaBits + 1] ELSE 0
        rest == sticky \/ \E i \in (MantissaBits + 2)..Len(bits) : bits[i] = 1
    IN  IF guard = 1 /\ (rest \/ kept[MantissaBits] = 1)
        THEN NextUp([exp |-> exp, bits |-> kept])
        ELSE [exp |-> exp, bits |-> kept]

RECURSIVE Scaled(_, _, _)
\* num / den times 2^exp written with den / 2 <= num < den
Scaled(num, den, exp) ==
    IF num >= den THEN Scaled(num, 2 * den, exp + 1)
    ELSE IF 2 * num < den THEN Scaled(2 * num, den, exp - 1)
    ELSE [num |-> num, den |-> den, exp |-> exp]

\* the binary digits that are worked out in one step
ChunkBits == MantissaBits \div 3

\* the w low binary digits of v
DigitsOf(v, w) == [i \in 1..w |-> (v \div 2^(w - i)) % 2]

RECURSIVE QuotientBits(_, _, _)
\* the first k binary digits of num / den (num < den) and the remainder
QuotientBits(num, den, k) ==
    IF k = 0 THEN [bits |-> <<>>, rem |-> num]
    ELSE LET w == IF k < ChunkBits THEN k ELSE ChunkBits
             rest == QuotientBits((num * 2^w) % den, den, k - w)
         IN  [bits |-> DigitsOf((num * 2^w) \div den, w) \o rest.bits, rem |-> rest.rem]

\* d / n in Python, for integers d >= 0 and n > 0
FloatDiv(d, n) ==
    IF d = 0 THEN FloatZero
    ELSE LET s == Scaled(d, n, 0)
             q == QuotientBits(s.num, s.den, MantissaBits + 1)
         IN  RoundToNearest(s.exp, q.bits, q.rem # 0)

\* float(d)
FloatOfInt(d) == FloatDiv(d, 1)

\* the binary digits of k, none for 0
Binary(k) ==
    DigitsOf(k, CHOOSE w \in 0..30 : 2^w > k /\ (w = 0 \/ 2^(w - 1) <= k))

RECURSIVE ValueOf(_, _, _)
\* the number with the binary digits bits[lo..hi]
ValueOf(bits, lo, hi) ==
    IF lo > hi THEN 0
    ELSE IF lo = hi THEN bits[lo]
    ELSE LET mid == (lo + hi) \div 2
         IN  ValueOf(bits, lo, mid) * 2^(hi - mid) + ValueOf(bits, mid + 1, hi)

\* x * n in Python, for a float x >= 0 and an integer n > 0: the exact
\* product, worked out in three parts of the significand, then rounded
FloatTimes(x, n) ==
    IF x = FloatZero THEN FloatZero
    ELSE LET w == ChunkBits
             len == Len(x.bits)
             low == ValueOf(x.bits, len - w + 1, len) * n
             mid == ValueOf(x.bits, len - 2 * w + 1, len - w) * n + low \div 2^w
             top == ValueOf(x.bits, 1, len - 2 * w) * n + mid \div 2^w
             product == Binary(top) \o DigitsOf(mid % 2^w, w) \o DigitsOf(low % 2^w, w)
         IN  RoundToNearest(x.exp + Len(product) - len, product, FALSE)

\* DependencyGraph(): the defaults of the dataclass
EmptyDependencyGraph ==
    [nodes |-> <<>>, edges |-> <<>>, chains |-> <<>>, circular_dependencies |-> <<>>,
     total_automations |-> 0, total_dependencies |-> 0, avg_chain_length |-> FloatZero,
     has_circular_deps |-> FALSE, critical_path_length |-> 0]

\* the value of a call that is not analyze_automation_impact
NoImpact ==
    [error |-> FALSE, automation_id |-> "", direct_dependents |-> <<>>, cascade_count |-> 0,
     total_affected |-> 0, affected_automations |-> {}, risk_level |-> ""]

\* {"error": str(e)}
ErrorImpact == [NoImpact EXCEPT !.error = TRUE]

\* the argument of a call that takes none
NoArg == ""

NoResult ==
    [op |-> "none", arg |-> NoArg, graph |-> EmptyDependencyGraph, chains |-> <<>>,
     impact |-> NoImpact, execution_order |-> <<>>]

\* a service nobody calls, over an empty hass.data["automation"]
EngineIdle ==
    /\ automations = <<>>
    /\ stack = <<>>
    /\ result = NoResult
    /\ dependency_cache = NoCache
    /\ requests = 0
    /\ changes = 0

\* params.get("page", 1)
DefaultPage == 1

\* params.get("per_page", 50)
DefaultPerPage == 50

\* the parameters of a request without query parameters
DefaultParams == [page |-> DefaultPage, per_page |-> DefaultPerPage, enabled_only |-> FALSE]

\* no response sent yet
NoResponse ==
    [sent |-> FALSE, total_count |-> 0, enabled_count |-> 0, disabled_count |-> 0,
     automations |-> <<>>, page |-> 0, per_page |-> 0, total_pages |-> 0]

\* a listing endpoint nobody calls
ListingIdle ==
    /\ definitions = <<>>
    /\ params = DefaultParams
    /\ automation_list = <<>>
    /\ listed = 0
    /\ response = NoResponse

\* parse calls on config that one run makes
MaxCalls == 2

NoOther == [cfg |-> Config("", Absent, Absent, Absent), graph |-> EmptyGraph, parsed |-> FALSE]

\* config with the bare mapping of one field put into a one-element list
WrapField(cfg, field) ==
    LET w(x) == IF x.f = "map" THEN List(<<x.v[1]>>) ELSE x
    IN  CASE field = "trigger" -> [cfg EXCEPT !.trigger = w(@), !.triggers = w(@)]
          [] field = "condition" -> [cfg EXCEPT !.condition = w(@), !.conditions = w(@)]
          [] field = "action" -> [cfg EXCEPT !.action = w(@), !.actions = w(@)]

Fields == {"trigger", "condition", "action"}

\* the other definitions a run parses between the calls on config
Others(cfg) ==
    {WrapField(cfg, f) : f \in Fields}
        \cup {Config("o", Absent, Absent, Absent),
              Config("o", List(<<Trig>>), List(<<Cond>>), List(<<IfThen(OneLeaf, OneLeaf)>>))}

Init ==
    /\ config \in Configs
    /\ node_counter = NewParserCounter
    /\ returned = <<>>
    /\ other = NoOther
    /\ calls = <<>>
    /\ EngineIdle
    /\ ListingIdle

\* graph = parser.parse_automation(config) on the long-lived parser
ParseConfig ==
    /\ Len(returned) < MaxCalls
    /\ LET r == ParseAutomation(config, node_counter)
       IN  /\ returned' = Append(returned, r.graph)
           /\ node_counter' = r.counter
    /\ UNCHANGED <<config, other, calls>>
    /\ UNCHANGED <<engine_vars, listing_vars>>

\* graph = parse_automation(config), the module-level function
ParseConfigFresh ==
    /\ Len(returned) < MaxCalls
    /\ returned' = Append(returned, ParseAutomationFresh(config))
    /\ UNCHANGED <<config, node_counter, other, calls>>
    /\ UNCHANGED <<engine_vars, listing_vars>>

\* parser.parse_automation(c) for another definition c on the long-lived
\* parser, between two calls on config
ParseOther(c) ==
    /\ returned # <<>>
    /\ Len(returned) < MaxCalls
    /\ LET r == ParseAutomation(c, node_counter)
       IN  /\ other' = [cfg |-> c, graph |-> r.graph, parsed |-> TRUE]
           /\ node_counter' = r.counter
    /\ UNCHANGED <<config, returned, calls>>
    /\ UNCHANGED <<engine_vars, listing_vars>>

Next ==
    \/ ParseConfig
    \/ ParseConfigFresh
    \/ \E c \in Others(config) : ParseOther(c)

Spec == Init /\ [][Next]_vars

\* the same calls on a definition that holds an item that is no mapping
InitUnexpected ==
    /\ config \in UnexpectedConfigs
    /\ node_counter = NewParserCounter
    /\ returned = <<>>
    /\ other = NoOther
    /\ calls = <<>>
    /\ EngineIdle
    /\ ListingIdle

SpecUnexpected == InitUnexpected /\ [][Next]_vars

(***************************************************************************)
(* Two parse_automation calls whose steps interleave.  A call runs on the  *)
(* long-lived parser (shared) or on a parser of its own.  The graph of a   *)
(* call is local to it; _node_counter is a field of the parser instance.   *)
(***************************************************************************)
\* the definitions the two calls parse
SharedConfigs ==
    {Config("a", Absent, Absent, Absent),
     Config("b", List(<<Trig>>), Absent, Absent),
     Config("c", Absent, Absent, List(<<Service, Service>>))}

\* the times a call on cfg runs _generate_node_id
Needed(cfg) == ParseWithReads(cfg, AloneReads(0)).generated

NewThread(cfg, shared) ==
    [cfg |-> cfg, shared |-> shared, own_counter |-> NewParserCounter,
     pc |-> "reset", loaded |-> 0, reads |-> <<>>, graph |-> EmptyGraph]

Threads == {1, 2}

InitShared ==
    /\ \E c1, c2 \in SharedConfigs, shared \in BOOLEAN :
          calls = <<NewThread(c1, shared), NewThread(c2, shared)>>
    /\ node_counter = NewParserCounter
    /\ config = NoOther.cfg
    /\ returned = <<>>
    /\ other = NoOther
    /\ EngineIdle
    /\ ListingIdle

\* self._node_counter as call c reads it
CounterOf(c) == IF calls[c].shared THEN node_counter ELSE calls[c].own_counter

\* self._node_counter = value, by call c
SetCounter(c, value, pc) ==
    IF calls[c].shared
    THEN /\ node_counter' = value
         /\ calls' = [calls EXCEPT ![c].pc = pc]
    ELSE /\ node_counter' = node_counter
         /\ calls' = [calls EXCEPT ![c].pc = pc, ![c].own_counter = value]

\* parse_automation: self._node_counter = 0
CounterReset(c) ==
    /\ calls[c].pc = "reset"
    /\ SetCounter(c, ResetCounter(CounterOf(c)), "load")
    /\ UNCHANGED parser_vars
    /\ UNCHANGED <<engine_vars, listing_vars>>

\* _generate_node_id: self._node_counter += 1, the read of the old value
CounterLoad(c) ==
    /\ calls[c].pc = "load"
    /\ calls' = [calls EXCEPT ![c].loaded = CounterOf(c), ![c].pc = "store"]
    /\ UNCHANGED node_counter
    /\ UNCHANGED parser_vars
    /\ UNCHANGED <<engine_vars, listing_vars>>

\* _generate_node_id: self._node_counter += 1, the write of the new value
CounterStore(c) ==
    /\ calls[c].pc = "store"
    /\ SetCounter(c, calls[c].loaded + 1, "format")
    /\ UNCHANGED parser_vars
    /\ UNCHANGED <<engine_vars, listing_vars>>

\* _generate_node_id: f"{prefix}_{self._node_counter}"
CounterFormat(c) ==
    /\ calls[c].pc = "format"
    /\ LET reads == Append(calls[c].reads, CounterOf(c))
       IN  calls' = [calls EXCEPT ![c].reads = reads,
                                  ![c].pc = IF Len(reads) = Needed(calls[c].cfg)
                                            THEN "return" ELSE "load"]
    /\ UNCHANGED node_counter
    /\ UNCHANGED parser_vars
    /\ UNCHANGED <<engine_vars, listing_vars>>

\* parse_automation: return graph
ReturnGraph(c) ==
    /\ calls[c].pc = "return"
    /\ calls' = [calls EXCEPT ![c].graph = ParseWithReads(calls[c].cfg, calls[c].reads),
                              ![c].pc = "done"]
    /\ UNCHANGED node_counter
    /\ UNCHANGED parser_vars
    /\ UNCHANGED <<engine_vars, listing_vars>>

NextShared ==
    \E c \in Threads :
        \/ CounterReset(c)
        \/ CounterLoad(c)
        \/ CounterStore(c)
        \/ CounterFormat(c)
        \/ ReturnGraph(c)

SpecShared == InitShared /\ [][NextShared]_vars

(***************************************************************************)
(* Dependency engine: build_dependency_graph                               *)
(***************************************************************************)
\* the value under "entity_id": one id, or a list of ids (Absent: no key)
OneEntity(e) == [f |-> "str", v |-> <<e>>]

EntityList(ids) == [f |-> "list", v |-> ids]

\* a trigger or action mapping {"entity_id": ent, ...}
EntityItem(ent) == [k |-> "entity", body |-> ent, alt |-> Absent]

\* {"alias": ..., "trigger": ..., "action": ...} stored under id; the keys
\* "triggers" and "actions" are absent
Automation(id, trigger, action) ==
    [id |-> id, alias |-> "alias " \o id, trigger |-> trigger, action |-> action,
     triggers |-> Absent, actions |-> Absent]

\* likelihood=0.9, in tenths
EntityTriggerLikelihood == 9

DependencyRelation(source, target) ==
    [source_automation_id |-> source.id, target_automation_id |-> target.id,
     source_alias |-> source.alias, target_alias |-> target.alias,
     dependency_type |-> "entity_trigger", is_required |-> TRUE,
     likelihood |-> EntityTriggerLikelihood, could_cause_loop |-> FALSE]

\* the ids an entity_id value names
EntityIds(ent) == {ent.v[i] : i \in DOMAIN ent.v}

\* source_entities: the entity ids of the top-level action mappings that
\* hold the key "entity_id"
SourceEntities(source) ==
    LET source_actions == WrapIfTruthy(source.action)
    IN  UNION {EntityIds(source_actions[i].body) : i \in DOMAIN source_actions}

\* `if trigger_entity:` and the membership test of one trigger
TriggerMatches(trigger, source_entities) ==
    /\ trigger.body.f # "absent"
    /\ trigger.body.v # <<>>
    /\ EntityIds(trigger.body) \cap source_entities # {}

RECURSIVE TriggerLoopNoBreak(_, _, _, _)
\* a variant of TriggerLoop that goes on after a match
TriggerLoopNoBreak(target_triggers, i, source_entities, edge) ==
    IF i > Len(target_triggers) THEN <<>>
    ELSE (IF TriggerMatches(target_triggers[i], source_entities) THEN <<edge>> ELSE <<>>)
         \o TriggerLoopNoBreak(target_triggers, i + 1, source_entities, edge)

RECURSIVE TriggerLoop(_, _, _, _)
\* for trigger in target_triggers, from trigger i on: the edges appended;
\* the loop breaks at the first trigger that matches
TriggerLoop(target_triggers, i, source_entities, edge) ==
    IF i > Len(target_triggers) THEN <<>>
    ELSE IF TriggerMatches(target_triggers[i], source_entities) THEN <<edge>>
         ELSE TriggerLoop(target_triggers, i + 1, source_entities, edge)

RECURSIVE Flatten(_, _, _)
\* the lists lists[lo], ..., lists[hi] joined into one
Flatten(lists, lo, hi) ==
    IF lo > hi THEN <<>>
    ELSE IF lo = hi THEN lists[lo]
    ELSE Flatten(lists, lo, (lo + hi) \div 2) \o Flatten(lists, (lo + hi) \div 2 + 1, hi)

\* the body of `for target_id, target_config in automations.items()` for
\* item t: the edges appended
TargetBody(autos, s, t) ==
    IF autos[s].id = autos[t].id THEN <<>>
    ELSE TriggerLoop(WrapAlways(autos[t].trigger), 1, SourceEntities(autos[s]),
                     DependencyRelation(autos[s], autos[t]))

\* for target_id, target_config in automations.items(), from item t on:
\* edges with the edges appended for each item, in order
TargetLoop(autos, s, t, edges) ==
    edges \o Flatten([u \in 1..Len(autos) |-> TargetBody(autos, s, u)], t, Len(autos))

\* for source_id, source_config in automations.items(), from item s on:
\* edges with the edges appended for each source, in order
SourceLoop(autos, s, edges) ==
    edges \o Flatten([u \in 1..Len(autos) |-> TargetLoop(autos, u, 1, <<>>)], s, Len(autos))

\* a variant of AvgChainLength that counts the edges per edge
AvgPerEdge(total_dependencies, total_automations) ==
    IF total_dependencies > 0
    THEN FloatDiv(total_dependencies, total_dependencies)
    ELSE FloatZero

\* if graph.total_automations > 0: graph.avg_chain_length =
\* graph.total_dependencies / max(1, graph.total_automations)
AvgChainLength(total_dependencies, total_automations) ==
    IF total_automations > 0
    THEN FloatDiv(total_dependencies,
                  IF total_automations > 1 THEN total_automations ELSE 1)
    ELSE FloatZero

\* the graph of build_dependency_graph when it reaches the call of
\* detect_circular_dependencies
BuiltGraph(autos) ==
    LET edges == SourceLoop(autos, 1, <<>>)
    IN  [EmptyDependencyGraph EXCEPT
            !.nodes = [i \in DOMAIN autos |-> autos[i].id],
            !.total_automations = Len(autos),
            !.edges = edges,
            !.total_dependencies = Len(edges),
            !.avg_chain_length = AvgChainLength(Len(edges), Len(autos))]

(***************************************************************************)
(* Dependency engine: detect_circular_dependencies and find_chains         *)
(***************************************************************************)
\* a variant of CycleOf that reports the whole path
WholePath(path, neighbor) == path

\* cycle[:-1] for cycle = path[path.index(neighbor):] + [neighbor]
CycleOf(path, neighbor) ==
    LET cycle_start == CHOOSE i \in DOMAIN path :
                          path[i] = neighbor /\ \A j \in 1..(i - 1) : path[j] # neighbor
    IN  SubSeq(path, cycle_start, Len(path))

\* automations_config.get(auto_id, {}).get("alias", auto_id)
AliasOf(autos, auto_id) ==
    IF \E i \in DOMAIN autos : autos[i].id = auto_id
    THEN autos[CHOOSE i \in DOMAIN autos : autos[i].id = auto_id].alias
    ELSE auto_id

\* aliases = [automations_config.get(aid, {}).get("alias", aid) for aid in ...]
AliasesOf(autos, ids) == [i \in DOMAIN ids |-> AliasOf(autos, ids[i])]

CircularChain(autos, automations_) ==
    [automations |-> automations_, aliases |-> AliasesOf(autos, automations_),
     total_estimated_duration |-> 0, is_circular |-> TRUE, risk_level |-> "high"]

\* the edges that `for edge in graph.edges` finds to leave auto_id, in the
\* order of graph.edges
EdgesFrom(graph, auto_id) ==
    SelectSeq(graph.edges, LAMBDA edge : edge.source_automation_id = auto_id)

RECURSIVE HasCycle(_, _, _, _, _)
RECURSIVE CycleEdges(_, _, _, _, _, _)

\* the body of `for edge in graph.edges` in has_cycle for one edge
VisitEdge(graph, autos, node, s, path, edge) ==
    IF edge.source_automation_id # node THEN s
    ELSE LET neighbor == edge.target_automation_id
         IN  IF neighbor \notin s.visited THEN HasCycle(graph, autos, neighbor, s, path)
             ELSE IF neighbor \in s.rec_stack
                  THEN [s EXCEPT !.chains = Append(@, CircularChain(autos, CycleOf(path, neighbor))),
                                 !.found = TRUE]
                  ELSE s

\* `for edge in graph.edges` of has_cycle from the i-th edge that leaves
\* node on (the body does nothing for the others); s.found is the value the
\* call returns
CycleEdges(graph, autos, node, s, path, i) ==
    IF i > Len(EdgesFrom(graph, node))
    THEN [s EXCEPT !.rec_stack = @ \ {node}, !.found = FALSE]
    ELSE LET step == VisitEdge(graph, autos, node, s, path, EdgesFrom(graph, node)[i])
         IN  IF step.found THEN step ELSE CycleEdges(graph, autos, node, step, path, i + 1)

\* has_cycle(node, visited, rec_stack, path): visited and rec_stack are
\* sets shared with the caller, path is the caller's copy
HasCycle(graph, autos, node, s, path) ==
    CycleEdges(graph, autos, node,
               [s EXCEPT !.visited = @ \cup {node}, !.rec_stack = @ \cup {node}],
               Append(path, node), 1)

\* a variant of DetectLoop that starts from the first node only
DetectFirstOnly(graph, autos, i, s) ==
    IF graph.nodes = <<>> THEN s.chains
    ELSE HasCycle(graph, autos, graph.nodes[1], [s EXCEPT !.rec_stack = {}, !.found = FALSE],
                  <<>>).chains

RECURSIVE DetectLoopFresh(_, _, _, _)
\* a variant of DetectLoop that forgets the visited automations at each start
DetectLoopFresh(graph, autos, i, s) ==
    IF i > Len(graph.nodes) THEN s.chains
    ELSE Then(HasCycle(graph, autos, graph.nodes[i],
                       [s EXCEPT !.visited = {}, !.rec_stack = {}, !.found = FALSE], <<>>),
              LAMBDA step : DetectLoopFresh(graph, autos, i + 1, step))

RECURSIVE DetectLoop(_, _, _, _)
\* for node in graph.nodes: if node not in visited: has_cycle(node, visited, set(), [])
DetectLoop(graph, autos, i, s) ==
    IF i > Len(graph.nodes) THEN s.chains
    ELSE IF graph.nodes[i] \in s.visited THEN DetectLoop(graph, autos, i + 1, s)
    ELSE DetectLoop(graph, autos, i + 1,
                    HasCycle(graph, autos, graph.nodes[i],
                             [s EXCEPT !.rec_stack = {}, !.found = FALSE], <<>>))

\* circular_chains of detect_circular_dependencies for the graph it got
DetectCycles(graph, autos) ==
    DetectLoop(graph, autos, 1, [visited |-> {}, rec_stack |-> {}, chains |-> <<>>, found |-> FALSE])

\* len(current_chain) > 20
MaxChainLength == 20

\* 100ms per automation
ChainStepDuration == 100

\* a variant of LinearChain that leaves the aliases out
LinearChainBare(autos, automations_) ==
    [automations |-> automations_, aliases |-> <<>>,
     total_estimated_duration |-> Len(automations_) * ChainStepDuration,
     is_circular |-> FALSE, risk_level |-> "low"]

\* DependencyChain(automations=current_chain.copy(), aliases=aliases, ...)
LinearChain(autos, automations_) ==
    [automations |-> automations_, aliases |-> AliasesOf(autos, automations_),
     total_estimated_duration |-> Len(automations_) * ChainStepDuration,
     is_circular |-> FALSE, risk_level |-> "low"]

RECURSIVE TraceChain(_, _, _, _, _)
RECURSIVE TraceEdges(_, _, _, _, _, _, _)

\* `for edge in graph.edges` of trace_chain from the i-th edge that leaves
\* start_id on (the body does nothing for the others), then the end of chain
\* test; `await trace_chain(...)` returns before the next edge is read
TraceEdges(graph, autos, start_id, current_chain, s, i, found_dependency) ==
    IF i > Len(EdgesFrom(graph, start_id))
    THEN IF ~found_dependency /\ Len(current_chain) > 1
         THEN [s EXCEPT !.chains = Append(@, LinearChain(autos, current_chain))]
         ELSE s
    ELSE Then(TraceChain(graph, autos, EdgesFrom(graph, start_id)[i].target_automation_id,
                         current_chain, s),
              LAMBDA step : TraceEdges(graph, autos, start_id, current_chain, step, i + 1, TRUE))

\* trace_chain(start_id, current_chain): visited is shared, current_chain
\* is the caller's copy
TraceChain(graph, autos, start_id, current_chain, s) ==
    IF start_id \in s.visited \/ Len(current_chain) > MaxChainLength THEN s
    ELSE TraceEdges(graph, autos, start_id, Append(current_chain, start_id),
                    [s EXCEPT !.visited = @ \cup {start_id}], 1, FALSE)

RECURSIVE ChainLoop(_, _, _, _)
\* for node in graph.nodes: if node not in visited: trace_chain(node, [])
ChainLoop(graph, autos, i, s) ==
    IF i > Len(graph.nodes) THEN s.chains
    ELSE IF graph.nodes[i] \in s.visited THEN ChainLoop(graph, autos, i + 1, s)
    ELSE ChainLoop(graph, autos, i + 1, TraceChain(graph, autos, graph.nodes[i], <<>>, s))

\* chains of find_chains for the graph it got
FindChains(graph, autos) == ChainLoop(graph, autos, 1, [visited |-> {}, chains |-> <<>>])

(***************************************************************************)
(* Dependency engine: analyze_automation_impact                            *)
(***************************************************************************)
\* max_depth: int = 10 of find_cascade
MaxCascadeDepth == 10

\* len(affected_automations) > 5: "high"
HighRiskAbove == 5

\* len(affected_automations) > 2: "medium"
MediumRiskAbove == 2

\* one entry of direct_dependents
DirectDependent(edge) ==
    [automation_id |-> edge.target_automation_id, alias |-> edge.target_alias,
     dependency_type |-> edge.dependency_type,
     risk |-> IF edge.could_cause_loop THEN "high" ELSE "low"]

\* `for edge in graph.edges: if edge.source_automation_id == automation_id`
\* that finds the direct dependents
DirectLoop(graph, automation_id) ==
    LET edges == EdgesFrom(graph, automation_id)
    IN  [direct_dependents |-> [i \in DOMAIN edges |-> DirectDependent(edges[i])],
         affected_automations |-> {edges[i].target_automation_id : i \in DOMAIN edges},
         raised |-> FALSE]

RECURSIVE CascadeEdges(_, _, _, _)
\* `for edge in graph.edges` of find_cascade(auto_id, depth) from edge i on.
\* cascade_count is assigned in find_cascade and so is local to it: the
\* statement `cascade_count += 1` reads it unassigned and raises
\* UnboundLocalError, which ends the loop before the recursive call.
CascadeEdges(graph, auto_id, s, i) ==
    IF i > Len(graph.edges) THEN s
    ELSE IF /\ graph.edges[i].source_automation_id = auto_id
            /\ graph.edges[i].target_automation_id \notin s.affected_automations
         THEN [s EXCEPT !.affected_automations =
                            @ \cup {graph.edges[i].target_automation_id},
                        !.raised = TRUE]
         ELSE CascadeEdges(graph, auto_id, s, i + 1)

\* find_cascade(auto_id, depth, max_depth)
FindCascade(graph, auto_id, depth, s) ==
    IF depth > MaxCascadeDepth THEN s ELSE CascadeEdges(graph, auto_id, s, 1)

\* the risk_level of the returned dictionary
RiskLevel(affected) ==
    IF affected > HighRiskAbove THEN "high"
    ELSE IF affected > MediumRiskAbove THEN "medium" ELSE "low"

\* analyze_automation_impact(automation_id) after build_dependency_graph
\* returned graph; affected_automations is given as a set, the order of
\* list(affected_automations) being arbitrary
AnalyzeImpact(graph, automation_id) ==
    LET direct == DirectLoop(graph, automation_id)
        s == FindCascade(graph, automation_id, 0, direct)
    IN  IF s.raised THEN ErrorImpact
        ELSE [error |-> FALSE, automation_id |-> automation_id,
              direct_dependents |-> s.direct_dependents,
              cascade_count |-> Cardinality(s.affected_automations) - Len(s.direct_dependents),
              total_affected |-> Cardinality(s.affected_automations),
              affected_automations |-> s.affected_automations,
              risk_level |-> RiskLevel(Cardinality(s.affected_automations))]

(***************************************************************************)
(* Dependency engine: simulate_execution_order                             *)
(***************************************************************************)
\* depth > 10 of add_to_execution
MaxExecutionDepth == 10

\* 100 ms for each automation
ExecutionStepDuration == 100

\* a variant of ExecutionEntry whose duration is 100 ms times the depth
ExecutionEntryFromZero(autos, auto_id, depth, execution_order) ==
    [order |-> Len(execution_order) + 1, automation_id |-> auto_id,
     alias |-> AliasOf(autos, auto_id), depth |-> depth,
     estimated_duration_ms |-> ExecutionStepDuration * depth,
     expected_start_ms |-> ExecutionStepDuration * Len(execution_order)]

\* the dictionary add_to_execution appends
ExecutionEntry(autos, auto_id, depth, execution_order) ==
    [order |-> Len(execution_order) + 1, automation_id |-> auto_id,
     alias |-> AliasOf(autos, auto_id), depth |-> depth,
     estimated_duration_ms |-> ExecutionStepDuration * (depth + 1),
     expected_start_ms |-> ExecutionStepDuration * Len(execution_order)]

RECURSIVE AddToExecution(_, _, _, _, _)
RECURSIVE ExecutionEdges(_, _, _, _, _, _)

\* `for edge in graph.edges: if edge.source_automation_id == auto_id` of
\* add_to_execution, from the i-th such edge on; `await add_to_execution(...)`
\* returns before the next edge is read
ExecutionEdges(graph, autos, edges, depth, s, i) ==
    IF i > Len(edges) THEN s
    ELSE Then(AddToExecution(graph, autos, edges[i].target_automation_id, depth + 1, s),
              LAMBDA step : ExecutionEdges(graph, autos, edges, depth, step, i + 1))

\* a variant of AddToExecution that stops one level earlier
AddToExecutionShallow(graph, autos, auto_id, depth, s) ==
    IF auto_id \in s.visited \/ depth >= MaxExecutionDepth THEN s
    ELSE ExecutionEdges(graph, autos, EdgesFrom(graph, auto_id), depth,
                        [visited |-> s.visited \cup {auto_id},
                         execution_order |->
                             Append(s.execution_order,
                                    ExecutionEntry(autos, auto_id, depth, s.execution_order))],
                        1)

\* add_to_execution(auto_id, depth): visited and execution_order are shared
AddToExecution(graph, autos, auto_id, depth, s) ==
    IF auto_id \in s.visited \/ depth > MaxExecutionDepth THEN s
    ELSE ExecutionEdges(graph, autos, EdgesFrom(graph, auto_id), depth,
                        [visited |-> s.visited \cup {auto_id},
                         execution_order |->
                             Append(s.execution_order,
                                    ExecutionEntry(autos, auto_id, depth, s.execution_order))],
                        1)

\* simulate_execution_order(trigger_automation_id) after
\* build_dependency_graph returned graph
SimulateExecutionOrder(graph, autos, trigger_automation_id) ==
    AddToExecution(graph, autos, trigger_automation_id, 0,
                   [visited |-> {}, execution_order |-> <<>>]).execution_order

(***************************************************************************)
(* Automation collections the dependency engine is run on.  Automation X   *)
(* is triggered by the entity x; its actions name the entities of the      *)
(* automations it starts.                                                  *)
(***************************************************************************)
AutomationIds == <<"A", "B", "C">>

\* the entity that triggers automation id
EntityOf(id) == "entity " \o id

RECURSIVE SeqOf(_)
\* the members of a set of ids as a list
SeqOf(ids) ==
    IF ids = {} THEN <<>>
    ELSE LET x == CHOOSE y \in ids : TRUE IN <<x>> \o SeqOf(ids \ {x})

\* "action": one mapping per automation in targets
ActionsOn(targets) ==
    LET t == SeqOf(targets)
    IN  List([i \in DOMAIN t |-> EntityItem(OneEntity(EntityOf(t[i])))])

\* "trigger": [{"entity_id": x}]
TriggerOf(id) == List(<<EntityItem(OneEntity(EntityOf(id)))>>)

\* the orders in which the automations ids are stored
Orders(ids) ==
    {o \in [1..Cardinality(ids) -> ids] : \A i, j \in DOMAIN o : o[i] = o[j] => i = j}

\* the automations ids, stored in the order order; targets[id] are the
\* automations whose entity the actions of id name
Collection(order, targets) ==
    [i \in DOMAIN order |-> Automation(order[i], TriggerOf(order[i]), ActionsOn(targets[order[i]]))]

\* every dependency graph on the first n automations, stored in id order
Shapes(n) ==
    LET ids == {AutomationIds[i] : i \in 1..n}
    IN  {Collection([i \in 1..n |-> AutomationIds[i]], targets) :
            targets \in [ids -> SUBSET ids]}

\* the graphs of Shapes(n) in which no automation names its own entity
SelfFree(n) ==
    {c \in Shapes(n) : \A i \in DOMAIN c : EntityOf(c[i].id) \notin SourceEntities(c[i])}

\* the two 3-cycles in every storage order
Cycles3 ==
    LET ids == {"A", "B", "C"}
        next1 == [x \in ids |-> CASE x = "A" -> {"B"} [] x = "B" -> {"C"} [] x = "C" -> {"A"}]
        next2 == [x \in ids |-> CASE x = "A" -> {"C"} [] x = "C" -> {"B"} [] x = "B" -> {"A"}]
    IN  {Collection(o, t) : o \in Orders(ids), t \in {next1, next2}}

\* other spellings of triggers and actions: a bare mapping, a list under
\* entity_id, several triggers of which two match, mappings with no
\* entity_id, an empty list of entity ids
Spellings ==
    LET a == EntityOf("A")
        b == EntityOf("B")
        triggers_b == {Absent, Bare(EntityItem(OneEntity(b))),
                       List(<<EntityItem(EntityList(<<"entity Z", b>>))>>),
                       List(<<EntityItem(OneEntity("entity Z")), EntityItem(OneEntity(b)),
                              EntityItem(EntityList(<<b, a>>))>>),
                       List(<<EmptyMap, EntityItem(EntityList(<<>>)), EntityItem(OneEntity(b))>>)}
        actions_a == {Absent, Bare(EmptyMap), Bare(EntityItem(OneEntity(b))),
                      List(<<EntityItem(EntityList(<<a, b>>))>>),
                      List(<<EmptyMap, EntityItem(OneEntity(b)), EntityItem(OneEntity(b))>>)}
    IN  {<<Automation("A", TriggerOf("A"), x), Automation("B", y, ActionsOn({"A"}))>> :
            x \in actions_a, y \in triggers_b}

\* the ids of the automations of a chain or of a star
LongId(i) == "N" \o ToString(i)

\* the chain N1 -> N2 -> ... -> Nn
ChainOf(n) ==
    Collection([i \in 1..n |-> LongId(i)],
               [id \in {LongId(i) : i \in 1..n} |->
                   {LongId(i + 1) : i \in {j \in 1..(n - 1) : LongId(j) = id}}])

\* N1 starts each of N2 .. N(n+1)
StarOf(n) ==
    Collection([i \in 1..(n + 1) |-> LongId(i)],
               [id \in {LongId(i) : i \in 1..(n + 1)} |->
                   IF id = LongId(1) THEN {LongId(i) : i \in 2..(n + 1)} ELSE {}])

\* a chain whose end lies deeper than add_to_execution goes
LongChain == ChainOf(MaxExecutionDepth + 2)

\* a chain with more automations behind its first than the "medium" threshold
ShortChain == ChainOf(MediumRiskAbove + 2)

\* stars with as many leaves as the risk thresholds, and one more
Stars == {StarOf(n) : n \in {MediumRiskAbove, MediumRiskAbove + 1,
                               HighRiskAbove, HighRiskAbove + 1}}

\* the automation with the fields of keys spelled in the plural
Respelled(auto, keys) ==
    [auto EXCEPT !.triggers = IF "trigger" \in keys THEN auto.trigger ELSE @,
                 !.trigger = IF "trigger" \in keys THEN Absent ELSE @,
                 !.actions = IF "action" \in keys THEN auto.action ELSE @,
                 !.action = IF "action" \in keys THEN Absent ELSE @]

\* the dependency graphs on A and B without a self-reference, with
\* the fields spelled "triggers" and "actions", or one of the two
PluralSpellings ==
    {[i \in DOMAIN c |-> Respelled(c[i], keys)] :
        c \in SelfFree(2), keys \in {{"trigger", "action"}, {"trigger"}, {"action"}}}

\* the cycles A <-> B and C <-> D with an edge from one to the other, in
\* every storage order
TwoCycles ==
    LET ids == {"A", "B", "C", "D"}
        link1 == [x \in ids |-> CASE x = "A" -> {"B"} [] x = "B" -> {"A"}
                                  [] x = "C" -> {"A", "D"} [] x = "D" -> {"C"}]
    IN  {Collection(o, link1) : o \in Orders(ids)}

\* n automations of which each starts the next k, and the first one more
RingOf(n, k) ==
    Collection([i \in 1..n |-> LongId(i)],
               [id \in {LongId(i) : i \in 1..n} |->
                   LET i == CHOOSE j \in 1..n : LongId(j) = id
                   IN  {LongId(((i + step - 1) % n) + 1) :
                           step \in 1..(IF i = 1 THEN k + 1 ELSE k)}])

\* 7 automations with 29 dependencies: the average 29 / 7 is rounded
DenseRing == RingOf(7, 4)

\* the dependency graphs on A and B without a self-reference, stored in the
\* order B, A
StoredBackwards ==
    {Collection(<<"B", "A">>, targets) :
        targets \in {t \in [{"A", "B"} -> SUBSET {"A", "B"}] : \A x \in {"A", "B"} : x \notin t[x]}}

Collections ==
    {<<>>} \cup Shapes(1) \cup Shapes(2) \cup StoredBackwards \cup SelfFree(3) \cup Cycles3
        \cup TwoCycles \cup Spellings \cup PluralSpellings
        \cup {LongChain, ShortChain, DenseRing} \cup Stars

(***************************************************************************)
(* Dependency engine: the calls.  stack holds the calls in progress, the   *)
(* outermost first; each awaits the call above it.                         *)
(***************************************************************************)
\* the nested calls the interpreter allows before it raises RecursionError
RecursionLimit == 6

\* the calls nearest the limit in which the logging of an except clause
\* raises RecursionError again
Headroom == 2

Operations == {"build_dependency_graph", "detect_circular_dependencies", "find_chains"}

\* the calls that take an automation id
IdOperations == {"analyze_automation_impact", "simulate_execution_order"}

Frame(op) ==
    [op |-> op, arg |-> NoArg, pc |-> "start", graph |-> EmptyDependencyGraph, chains |-> <<>>,
     impact |-> NoImpact, execution_order |-> <<>>]

Top == stack[Len(stack)]

\* the stack with its top frame changed to frame
SetTop(frame) == [stack EXCEPT ![Len(stack)] = frame]

\* the stack after the top frame returned: the caller takes frame
PopTo(frame) == [SubSeq(stack, 1, Len(stack) - 1) EXCEPT ![Len(stack) - 1] = frame]

Awaits(op) ==
    /\ Len(stack) >= 2
    /\ Top.pc = "done"
    /\ stack[Len(stack) - 1].op = op
    /\ stack[Len(stack) - 1].pc = "awaiting"

InitEngine ==
    /\ automations \in Collections
    /\ stack = <<>>
    /\ result = NoResult
    /\ dependency_cache = NoCache
    /\ requests = 0
    /\ changes = 0
    /\ ListingIdle
    /\ config = NoOther.cfg
    /\ node_counter = NewParserCounter
    /\ returned = <<>>
    /\ other = NoOther
    /\ calls = <<>>

\* requests a client makes of one service
MaxRequests == 2

\* a client awaits service.op()
Request(op) ==
    /\ stack = <<>>
    /\ requests < MaxRequests
    /\ stack' = <<Frame(op)>>
    /\ requests' = requests + 1
    /\ result' = NoResult
    /\ UNCHANGED <<automations, dependency_cache, changes>>
    /\ UNCHANGED <<parser_side, listing_vars>>

\* an id under which hass.data["automation"] stores nothing
UnknownId == "Z"

\* the ids a client passes: those of the stored automations and an unknown one
Ids == {automations[i].id : i \in DOMAIN automations} \cup {UnknownId}

\* a client awaits service.op(id)
RequestFor(op, id) ==
    /\ stack = <<>>
    /\ requests < MaxRequests
    /\ stack' = <<[Frame(op) EXCEPT !.arg = id]>>
    /\ requests' = requests + 1
    /\ result' = NoResult
    /\ UNCHANGED <<automations, dependency_cache, changes>>
    /\ UNCHANGED <<parser_side, listing_vars>>

\* changes made to hass.data["automation"] in one run
MaxChanges == 1

\* an automation that is added: the entity of B triggers it and its action
\* names the entity of A
AddedAutomation == Automation("N", TriggerOf("B"), ActionsOn({"A"}))

\* the collections that one change makes of autos: the first automation is
\* removed, an automation is added
Changes(autos) ==
    (IF autos = <<>> THEN {} ELSE {Tail(autos)})
        \cup (IF \E i \in DOMAIN autos : autos[i].id = AddedAutomation.id THEN {}
              ELSE {Append(autos, AddedAutomation)})

\* Home Assistant changes hass.data["automation"] between two calls of the
\* service (a call never yields to the event loop: every await of it is of a
\* coroutine of the service).  The client's result is of the old collection.
ChangeCollection(autos) ==
    /\ stack = <<>>
    /\ requests >= 1
    /\ changes < MaxChanges
    /\ automations' = autos
    /\ changes' = changes + 1
    /\ result' = NoResult
    /\ UNCHANGED <<stack, dependency_cache, requests>>
    /\ UNCHANGED <<parser_side, listing_vars>>

\* build_dependency_graph: `if not automations: return graph`
BuildEmpty ==
    /\ stack # <<>>
    /\ Top.op = "build_dependency_graph" /\ Top.pc = "start"
    /\ automations = <<>>
    /\ stack' = SetTop([Top EXCEPT !.pc = "done"])
    /\ UNCHANGED <<automations, result, dependency_cache, requests, changes>>
    /\ UNCHANGED <<parser_side, listing_vars>>

\* a variant of BuildCallsDetect that takes the graph of _dependency_cache
\* when there is one
BuildFromCache ==
    /\ stack # <<>>
    /\ Top.op = "build_dependency_graph" /\ Top.pc = "start"
    /\ automations # <<>>
    /\ Len(stack) < RecursionLimit
    /\ stack' = Append(SetTop([Top EXCEPT !.pc = "awaiting",
                                          !.graph = IF dependency_cache.set
                                                    THEN dependency_cache.graph
                                                    ELSE BuiltGraph(automations)]),
                       Frame("detect_circular_dependencies"))
    /\ UNCHANGED <<automations, result, dependency_cache, requests, changes>>
    /\ UNCHANGED <<parser_side, listing_vars>>

\* build_dependency_graph up to `await self.detect_circular_dependencies()`
BuildCallsDetect ==
    /\ stack # <<>>
    /\ Top.op = "build_dependency_graph" /\ Top.pc = "start"
    /\ automations # <<>>
    /\ Len(stack) < RecursionLimit
    /\ stack' = Append(SetTop([Top EXCEPT !.pc = "awaiting", !.graph = BuiltGraph(automations)]),
                       Frame("detect_circular_dependencies"))
    /\ UNCHANGED <<automations, result, dependency_cache, requests, changes>>
    /\ UNCHANGED <<parser_side, listing_vars>>

\* detect_circular_dependencies, find_chains, analyze_automation_impact and
\* simulate_execution_order up to `graph = await self.build_dependency_graph()`
CallBuild ==
    /\ stack # <<>>
    /\ Top.op # "build_dependency_graph" /\ Top.pc = "start"
    /\ Len(stack) < RecursionLimit
    /\ stack' = Append(SetTop([Top EXCEPT !.pc = "awaiting"]), Frame("build_dependency_graph"))
    /\ UNCHANGED <<automations, result, dependency_cache, requests, changes>>
    /\ UNCHANGED <<parser_side, listing_vars>>

\* the call the top frame makes exceeds the recursion limit: RecursionError
\* is raised inside the try block of the top frame
RaiseRecursionError ==
    /\ stack # <<>>
    /\ Top.pc = "start"
    /\ Len(stack) = RecursionLimit
    /\ Top.op = "build_dependency_graph" => automations # <<>>
    /\ stack' = SetTop([Top EXCEPT !.pc = "raised",
                                   !.graph = IF Top.op = "build_dependency_graph"
                                             THEN BuiltGraph(automations) ELSE @])
    /\ UNCHANGED <<automations, result, dependency_cache, requests, changes>>
    /\ UNCHANGED <<parser_side, listing_vars>>

\* `except Exception as e: _LOGGER.error(...)`, then `return graph` of
\* build_dependency_graph, `return {"error": str(e)}` of
\* analyze_automation_impact, `return []` of the other three
CatchException ==
    /\ stack # <<>>
    /\ Top.pc = "raised"
    /\ stack' = SetTop([Top EXCEPT !.pc = "done", !.chains = <<>>, !.execution_order = <<>>,
                                   !.impact = IF Top.op = "analyze_automation_impact"
                                              THEN ErrorImpact ELSE @])
    /\ UNCHANGED <<automations, result, dependency_cache, requests, changes>>
    /\ UNCHANGED <<parser_side, listing_vars>>

\* _LOGGER.error in the except clause raises RecursionError itself: the
\* exception leaves the call and reaches the try block of its caller
RaiseInHandler ==
    /\ Len(stack) >= 2
    /\ Top.pc = "raised"
    /\ Len(stack) > RecursionLimit - Headroom
    /\ stack' = PopTo([stack[Len(stack) - 1] EXCEPT !.pc = "raised"])
    /\ UNCHANGED <<automations, result, dependency_cache, requests, changes>>
    /\ UNCHANGED <<parser_side, listing_vars>>

\* build_dependency_graph after detect_circular_dependencies returned
BuildResumes ==
    /\ Awaits("build_dependency_graph")
    /\ LET graph == [stack[Len(stack) - 1].graph EXCEPT
                        !.circular_dependencies = Top.chains,
                        !.has_circular_deps = Len(Top.chains) > 0]
       IN  /\ dependency_cache' = [set |-> TRUE, graph |-> graph]
           /\ stack' = PopTo([stack[Len(stack) - 1] EXCEPT !.pc = "done", !.graph = graph])
    /\ UNCHANGED <<automations, result, requests, changes>>
    /\ UNCHANGED <<parser_side, listing_vars>>

\* detect_circular_dependencies after build_dependency_graph returned
DetectResumes ==
    /\ Awaits("detect_circular_dependencies")
    /\ stack' = PopTo([stack[Len(stack) - 1] EXCEPT !.pc = "done",
                                                    !.chains = DetectCycles(Top.graph, automations)])
    /\ UNCHANGED <<automations, result, dependency_cache, requests, changes>>
    /\ UNCHANGED <<parser_side, listing_vars>>

\* find_chains after build_dependency_graph returned
FindChainsResumes ==
    /\ Awaits("find_chains")
    /\ stack' = PopTo([stack[Len(stack) - 1] EXCEPT !.pc = "done",
                                                    !.chains = FindChains(Top.graph, automations)])
    /\ UNCHANGED <<automations, result, dependency_cache, requests, changes>>
    /\ UNCHANGED <<parser_side, listing_vars>>

\* analyze_automation_impact after build_dependency_graph returned
AnalyzeResumes ==
    /\ Awaits("analyze_automation_impact")
    /\ LET caller == stack[Len(stack) - 1]
       IN  stack' = PopTo([caller EXCEPT !.pc = "done",
                                         !.impact = AnalyzeImpact(Top.graph, caller.arg)])
    /\ UNCHANGED <<automations, result, dependency_cache, requests, changes>>
    /\ UNCHANGED <<parser_side, listing_vars>>

\* simulate_execution_order after build_dependency_graph returned
SimulateResumes ==
    /\ Awaits("simulate_execution_order")
    /\ LET caller == stack[Len(stack) - 1]
       IN  stack' = PopTo([caller EXCEPT
                              !.pc = "done",
                              !.execution_order =
                                  SimulateExecutionOrder(Top.graph, automations, caller.arg)])
    /\ UNCHANGED <<automations, result, dependency_cache, requests, changes>>
    /\ UNCHANGED <<parser_side, listing_vars>>

\* the outermost call returns to the client
Return ==
    /\ Len(stack) = 1
    /\ Top.pc = "done"
    /\ result' = [op |-> Top.op, arg |-> Top.arg, graph |-> Top.graph, chains |-> Top.chains,
                  impact |-> Top.impact, execution_order |-> Top.execution_order]
    /\ stack' = <<>>
    /\ UNCHANGED <<automations, dependency_cache, requests, changes>>
    /\ UNCHANGED <<parser_side, listing_vars>>

NextEngine ==
    \/ \E op \in Operations : Request(op)
    \/ \E op \in IdOperations : \E id \in Ids : RequestFor(op, id)
    \/ \E autos \in Changes(automations) : ChangeCollection(autos)
    \/ BuildEmpty
    \/ BuildCallsDetect
    \/ CallBuild
    \/ RaiseRecursionError
    \/ CatchException
    \/ RaiseInHandler
    \/ BuildResumes
    \/ DetectResumes
    \/ FindChainsResumes
    \/ AnalyzeResumes
    \/ SimulateResumes
    \/ Return

SpecEngine == InitEngine /\ [][NextEngine]_vars

(***************************************************************************)
(* The automation listing (api/phase1_api.py, GET .../phase1/automations): *)
(* one AutomationGraphParser is made for the request and parses every      *)
(* automation in the loop.  One step of the loop is one action.            *)
(***************************************************************************)
\* the result None of _get_automation_config
NoConfig == [found |-> FALSE, cfg |-> NoOther.cfg]

\* _get_automation_config(automation_id): the definition put together from
\* the entity of the automation component, None when it has neither a
\* trigger nor an action; for an automation with no entity in the component,
\* a minimal definition from the attributes of its state
GetAutomationConfig(entity) ==
    IF entity.component
    THEN LET cfg == [alias |-> Text(entity.name), id |-> Text(entity.clean_id),
                     description |-> entity.description,
                     trigger |-> entity.trigger, triggers |-> Absent,
                     condition |-> entity.condition, conditions |-> Absent,
                     action |-> entity.action, actions |-> Absent]
         IN  IF Truthy(cfg.trigger) \/ Truthy(cfg.action) THEN [found |-> TRUE, cfg |-> cfg]
             ELSE NoConfig
    ELSE IF entity.state # "none"
         THEN [found |-> TRUE,
               cfg |-> [alias |-> Text(entity.name), id |-> Text(entity.clean_id),
                        description |-> Absent,
                        trigger |-> List(<<>>), triggers |-> Absent,
                        condition |-> Absent, conditions |-> Absent,
                        action |-> List(<<>>), actions |-> Absent]]
         ELSE NoConfig

\* node_count and edge_count of an automation whose parse raised, or that
\* has no definition
NoCounts == [node_count |-> 0, edge_count |-> 0, counter |-> 0]

\* the try block of the loop: the counts of the parsed graph, 0 and 0 when
\* there is no definition or when the parse raises; counter is the value the
\* parser's _node_counter has afterwards
CountNodes(entity, counter) ==
    LET automation_config == GetAutomationConfig(entity)
        r == ParseAutomation(automation_config.cfg, counter)
    IN  IF ~automation_config.found THEN [NoCounts EXCEPT !.counter = counter]
        ELSE IF r.graph.raised THEN [NoCounts EXCEPT !.counter = r.counter]
        ELSE [node_count |-> Len(r.graph.nodes), edge_count |-> Len(r.graph.edges),
              counter |-> r.counter]

\* the entry automation_list gets for an automation
ListEntry(entity, counts) ==
    [automation_id |-> entity.clean_id, alias |-> entity.name,
     enabled |-> entity.state = "on",
     node_count |-> counts.node_count, edge_count |-> counts.edge_count]

\* `if not state: continue` and `if enabled_only and not is_enabled: continue`
Skipped(entity, enabled_only) ==
    entity.state = "none" \/ (enabled_only /\ entity.state # "on")

\* a variant of ListAutomation in which a parse that raises ends the loop
ListAutomationAborting ==
    /\ ~response.sent
    /\ listed < Len(definitions)
    /\ LET entity == definitions[listed + 1]
           counts == CountNodes(entity, node_counter)
           automation_config == GetAutomationConfig(entity)
           raised == automation_config.found
                     /\ ParseAutomation(automation_config.cfg, node_counter).graph.raised
       IN  IF Skipped(entity, params.enabled_only)
           THEN /\ listed' = listed + 1
                /\ UNCHANGED <<automation_list, node_counter>>
           ELSE /\ listed' = IF raised THEN Len(definitions) ELSE listed + 1
                /\ automation_list' = IF raised THEN automation_list
                                      ELSE Append(automation_list, ListEntry(entity, counts))
                /\ node_counter' = counts.counter
    /\ UNCHANGED <<definitions, params, response>>
    /\ UNCHANGED <<config, returned, other, calls, engine_vars>>

\* one turn of `for automation_id in automations`
ListAutomation ==
    /\ ~response.sent
    /\ listed < Len(definitions)
    /\ LET entity == definitions[listed + 1]
           counts == CountNodes(entity, node_counter)
       IN  IF Skipped(entity, params.enabled_only)
           THEN UNCHANGED <<automation_list, node_counter>>
           ELSE /\ automation_list' = Append(automation_list, ListEntry(entity, counts))
                /\ node_counter' = counts.counter
    /\ listed' = listed + 1
    /\ UNCHANGED <<definitions, params, response>>
    /\ UNCHANGED <<config, returned, other, calls, engine_vars>>

\* the entries of list that satisfy Test
Count(list, Test(_)) == Cardinality({i \in DOMAIN list : Test(list[i])})

\* automation_list[start_idx:end_idx]
Slice(list, start_idx, end_idx) ==
    SubSeq(list, start_idx + 1, IF end_idx < Len(list) THEN end_idx ELSE Len(list))

\* the pagination and the response, after the loop
Respond ==
    /\ ~response.sent
    /\ listed = Len(definitions)
    /\ LET total_count == Len(automation_list)
           total_pages == (total_count + params.per_page - 1) \div params.per_page
           start_idx == (params.page - 1) * params.per_page
           end_idx == start_idx + params.per_page
       IN  response' =
               [sent |-> TRUE, total_count |-> total_count,
                enabled_count |-> Count(automation_list, LAMBDA a : a.enabled),
                disabled_count |-> Count(automation_list, LAMBDA a : ~a.enabled),
                automations |-> Slice(automation_list, start_idx, end_idx),
                page |-> params.page, per_page |-> params.per_page,
                total_pages |-> total_pages]
    /\ UNCHANGED <<definitions, params, automation_list, listed>>
    /\ UNCHANGED <<parser_side, engine_vars>>

\* most automations in the listing
MaxDefinitions == 3

\* an automation of Home Assistant: its state ("none" when it has no state
\* object), whether the automation component has an entity for it, and
\* the entity's name and stored trigger, condition and action
Entity(name, state, component, cfg) ==
    [entity_id |-> "automation." \o name, clean_id |-> name, name |-> "name " \o name,
     state |-> state, component |-> component, description |-> cfg.description,
     trigger |-> cfg.trigger, condition |-> cfg.condition, action |-> cfg.action]

\* stored definitions: two that parse, two with an item that is no mapping,
\* one with neither trigger nor action
StoredConfigs ==
    [plain |-> Config("t", List(<<Trig>>), Absent, OneLeaf),
     nested |-> Config("t", List(<<Trig, Trig>>), List(<<Cond>>),
                       List(<<IfThen(OneLeaf, OneLeaf), Service>>)),
     text |-> Config("t", List(<<Trig, TextItem>>), Absent, OneLeaf),
     null |-> Config("t", List(<<Trig>>), Absent, List(<<Service, NoneItem, Service>>)),
     bare |-> Without(Config("t", Absent, List(<<Cond>>), Absent), {"description"})]

\* the kinds of automations in the listing
EntityKinds ==
    {<<state, TRUE, StoredConfigs[c]>> : state \in {"on"}, c \in DOMAIN StoredConfigs}
    \cup {<<"off", TRUE, StoredConfigs.plain>>, <<"off", TRUE, StoredConfigs.text>>,
          <<"none", TRUE, StoredConfigs.plain>>, <<"on", FALSE, StoredConfigs.plain>>}

InitListing ==
    /\ \E n \in 1..MaxDefinitions :
          \E kinds \in [1..n -> EntityKinds] :
              definitions = [i \in 1..n |->
                                Entity(ToString(i), kinds[i][1], kinds[i][2], kinds[i][3])]
    /\ params \in {[DefaultParams EXCEPT !.enabled_only = b] : b \in BOOLEAN}
    /\ automation_list = <<>>
    /\ listed = 0
    /\ response = NoResponse
    /\ node_counter = NewParserCounter
    /\ config = NoOther.cfg
    /\ returned = <<>>
    /\ other = NoOther
    /\ calls = <<>>
    /\ EngineIdle

NextListing ==
    \/ ListAutomation
    \/ Respond

SpecListing == InitListing /\ [][NextListing]_vars

(***************************************************************************)
(* Reading a returned graph                                                *)
(***************************************************************************)
\* the positions of the edges of g that leave node id
OutEdges(g, id) == {i \in DOMAIN g.edges : g.edges[i].from = id}

\* the positions of the edges of g that carry label
Labeled(g, label) == {i \in DOMAIN g.edges : g.edges[i].label = label}

\* the ids of the nodes of g whose id has the prefix, in creation order
RECURSIVE IdsWithPrefix(_, _, _)
IdsWithPrefix(g, prefix, i) ==
    IF i > Len(g.nodes) THEN <<>>
    ELSE (IF g.nodes[i].id.prefix = prefix THEN <<g.nodes[i].id>> ELSE <<>>)
         \o IdsWithPrefix(g, prefix, i + 1)

\* the node of g with the id (ids are unique in a graph parsed alone)
NodeOf(g, id) == g.nodes[CHOOSE i \in DOMAIN g.nodes : g.nodes[i].id = id]

SameGraph(g, h) == g.nodes = h.nodes /\ g.edges = h.edges

\* the numbers of triggers, conditions and top-level actions of config: the
\* items of the field's list, a bare mapping counting as a list of one
NumTriggers == Len(TriggerItems(config))

NumConditions == Len(ConditionItems(config))

NumActions == Len(ActionItems(config))

(***************************************************************************)
(* Claims                                                                  *)
(***************************************************************************)

\* C1 (no-condition rule): in every graph returned for a definition with at
\* least one trigger, no condition and at least one action, each trigger
\* node has exactly one outgoing edge; the edge is unlabeled and leads to the
\* node created for the first top-level action.
C1_NoConditionRule ==
    \A k \in DOMAIN returned :
        LET g == returned[k]
            first_action == g.nodes[NumTriggers + 2]
        IN  (NumTriggers >= 1 /\ NumConditions = 0 /\ NumActions >= 1) =>
                /\ first_action = OwnNode(ActionItems(config)[1], 0, first_action.id)
                /\ \A n \in DOMAIN g.nodes :
                      g.nodes[n].type = COMP_TYPE_TRIGGER =>
                          /\ Cardinality(OutEdges(g, g.nodes[n].id)) = 1
                          /\ \A i \in OutEdges(g, g.nodes[n].id) :
                                /\ g.edges[i].label = NoLabel
                                /\ g.edges[i].to = first_action.id

\* C1 witness: a definition with two triggers, no condition and a choose
\* action first has been parsed.
C1_Witness ==
    /\ returned # <<>>
    /\ NumTriggers = 2 /\ NumConditions = 0 /\ NumActions >= 1
    /\ ActionItems(config)[1].k = "choose"
    /\ Len(returned[1].nodes) > 4

\* C2 (condition-chain rule): in every graph returned for a definition with
\* T triggers and C > 0 conditions there are exactly C - 1 edges labeled
\* "AND", the i-th from condition i to condition i + 1, and exactly T edges
\* labeled "if", one from each trigger to the first condition.
C2_ConditionChainRule ==
    \A k \in DOMAIN returned :
        LET g == returned[k]
            trig == IdsWithPrefix(g, "trigger", 1)
            cond == IdsWithPrefix(g, "condition", 1)
            and_edges == Labeled(g, "AND")
            if_edges == Labeled(g, "if")
        IN  NumConditions > 0 =>
                /\ Len(trig) = NumTriggers /\ Len(cond) = NumConditions
                /\ Cardinality(and_edges) = NumConditions - 1
                /\ \A i \in 1..(NumConditions - 1) :
                      \E e \in and_edges :
                          g.edges[e].from = cond[i] /\ g.edges[e].to = cond[i + 1]
                /\ Cardinality(if_edges) = NumTriggers
                /\ \A i \in 1..NumTriggers :
                      \E e \in if_edges :
                          g.edges[e].from = trig[i] /\ g.edges[e].to = cond[1]

\* C2 witness: a definition with two triggers, two conditions and a nested
\* control construct has been parsed.
C2_Witness ==
    /\ returned # <<>>
    /\ NumTriggers = 2 /\ NumConditions = 2 /\ NumActions = 1
    /\ ActionItems(config)[1] \in Constructs2
    /\ Cardinality(Labeled(returned[1], "if")) = 2

\* the top-level actions of config that are a choose with a default key
ChooseWithDefault ==
    {i \in DOMAIN ActionItems(config) :
        ActionItems(config)[i].k = "choose" /\ ActionItems(config)[i].alt.f # "absent"}

\* the branches of a choose action
NumBranches(action) == Len(WrapAlways(action.body))

\* C3 (choose construct): for a top-level choose action with N branches and
\* a default key, the junction node has exactly one outgoing edge labeled
\* "option i" for each i in 1..N and exactly one labeled "else"; these N + 1
\* edges lead to N + 1 distinct branch nodes, and no other node of the graph
\* is the source of an edge into one of these branch nodes.
C3_ChooseConstruct ==
    \A k \in DOMAIN returned :
        \A a \in ChooseWithDefault :
            LET g == returned[k]
                junction == g.action_ids[a]
                N == NumBranches(ActionItems(config)[a])
                branch_edges == {i \in OutEdges(g, junction) : g.edges[i].label # NoLabel}
                branches == {g.edges[i].to : i \in branch_edges}
            IN  /\ NodeOf(g, junction).label = "Choose/If-Then"
                /\ Cardinality(branch_edges) = N + 1
                /\ Cardinality(branches) = N + 1
                /\ \A n \in 1..N :
                      Cardinality(OutEdges(g, junction) \cap Labeled(g, "option " \o ToString(n))) = 1
                /\ Cardinality(OutEdges(g, junction) \cap Labeled(g, "else")) = 1
                /\ \A b \in branches : NodeOf(g, b).type = COMP_TYPE_CONDITION
                /\ \A i \in DOMAIN g.edges : g.edges[i].to \in branches => g.edges[i].from = junction

\* C3 witness: a choose action with two branches and a non-empty default has
\* been parsed.
C3_Witness ==
    /\ returned # <<>>
    /\ \E a \in ChooseWithDefault :
          /\ NumBranches(ActionItems(config)[a]) = 2
          /\ Truthy(ActionItems(config)[a].alt)

\* the fields of config that hold a bare mapping
BareFields ==
    {f \in Fields : WrapField(config, f) # config}

\* C4 (scalar vs. list equivalence), as claimed: the graph returned for a
\* definition whose field holds a bare mapping m equals the graph returned
\* for the definition whose field holds the list [m].
C4_ScalarListEquivalence ==
    \A k \in DOMAIN returned :
        \A f \in BareFields :
            (other.parsed /\ other.cfg = WrapField(config, f)) =>
                SameGraph(returned[k], other.graph)

\* C5 (determinism): all parse calls on one definition return the same
\* graph (node ids, nodes, edges and labels), whether made on a new parser or
\* on the long-lived parser after other calls.
C5_Determinism ==
    \A i, j \in DOMAIN returned : returned[i] = returned[j]

\* C5 witness: config was parsed twice and a definition with another number
\* of nodes was parsed on the same parser in between.
C5_Witness ==
    /\ Len(returned) = 2
    /\ other.parsed
    /\ other.graph.generated # returned[1].generated
    /\ node_counter = returned[2].generated

\* the ids of the nodes of g are pairwise distinct
DistinctIds(g) ==
    \A i, j \in DOMAIN g.nodes : g.nodes[i].id = g.nodes[j].id => i = j

\* C6 (reentrancy), as claimed: each of two parse_automation calls whose
\* steps interleave, on one shared parser or on two, returns the graph it
\* returns when run alone, and no returned graph has two nodes with one id.
C6_Reentrancy ==
    \A c \in DOMAIN calls :
        calls[c].pc = "done" =>
            /\ SameGraph(calls[c].graph, ParseAutomationFresh(calls[c].cfg))
            /\ DistinctIds(calls[c].graph)

\* two calls on parsers of their own return the graphs they return alone
C6_OwnParsers ==
    \A c \in DOMAIN calls :
        (calls[c].pc = "done" /\ ~calls[c].shared) =>
            /\ SameGraph(calls[c].graph, ParseAutomationFresh(calls[c].cfg))
            /\ DistinctIds(calls[c].graph)

(***************************************************************************)
(* Reading what the dependency engine returned                             *)
(***************************************************************************)
\* the dependency edge set of the stored automations, as ordered pairs
EdgePairs ==
    LET edges == BuiltGraph(automations).edges
    IN  {<<edges[i].source_automation_id, edges[i].target_automation_id>> : i \in DOMAIN edges}

\* the pairs <<a, c>> with <<a, b>> in R and <<b, c>> in S
Compose(R, S) ==
    {<<x[1][1], x[2][2]>> : x \in {y \in R \X S : y[1][2] = y[2][1]}}

RECURSIVE TransitiveClosure(_)
TransitiveClosure(R) ==
    LET R2 == R \cup Compose(R, R)
    IN  IF R2 = R THEN R ELSE TransitiveClosure(R2)

\* the edge set contains at least one cycle
Cyclic == \E x \in TransitiveClosure(EdgePairs) : x[1] = x[2]

\* an edge joins each automation of chain to the next one and the last one
\* to the first
IsCycle(chain) ==
    /\ chain # <<>>
    /\ \A i \in DOMAIN chain : <<chain[i], chain[(i % Len(chain)) + 1]>> \in EdgePairs

\* every list of chains detect_circular_dependencies has returned: to its
\* caller (the frames that are done), to the client, and as the
\* circular_dependencies of the graph build_dependency_graph returned
DetectedLists ==
    {stack[i].chains : i \in {j \in DOMAIN stack : stack[j].op = "detect_circular_dependencies"
                                                     /\ stack[j].pc = "done"}}
        \cup (IF result.op = "detect_circular_dependencies" THEN {result.chains} ELSE {})
        \cup (IF result.op = "build_dependency_graph"
              THEN {result.graph.circular_dependencies} ELSE {})

\* C7 (cycle detection soundness): each chain detect_circular_dependencies
\* returns is a cycle of the dependency edge set, with is_circular true and
\* risk_level "high"; for an acyclic edge set the returned list is empty.
C7_DetectionSoundness ==
    \A chains \in DetectedLists :
        /\ \A i \in DOMAIN chains :
              /\ IsCycle(chains[i].automations)
              /\ chains[i].is_circular
              /\ chains[i].risk_level = "high"
        /\ ~Cyclic => chains = <<>>

\* C7 witness: detect_circular_dependencies returned to the client the
\* cycle B, C that it reached from A, which is not on the cycle.
C7_Witness ==
    /\ result.op = "detect_circular_dependencies"
    /\ Len(result.chains) = 1
    /\ result.chains[1].automations = <<"B", "C">>
    /\ <<"A", "B">> \in EdgePairs
    /\ \A x \in EdgePairs : x[2] # "A"

\* the only edges form the cycle A -> B -> C -> A or its reverse
ThreeCycle ==
    \/ EdgePairs = {<<"A", "B">>, <<"B", "C">>, <<"C", "A">>}
    \/ EdgePairs = {<<"A", "C">>, <<"C", "B">>, <<"B", "A">>}

\* C8 (cycle detection completeness): when the dependency edge set has a
\* cycle, the list detect_circular_dependencies returns to the client is
\* not empty and the graph build_dependency_graph returns has
\* has_circular_deps true; for a 3-cycle the list holds exactly one chain,
\* whose automations are A, B and C, in every storage order.
C8_DetectionCompleteness ==
    /\ (result.op = "detect_circular_dependencies" /\ Cyclic) => result.chains # <<>>
    /\ (result.op = "build_dependency_graph" /\ Cyclic) =>
            /\ result.graph.has_circular_deps
            /\ result.graph.circular_dependencies # <<>>
    /\ (result.op = "detect_circular_dependencies" /\ ThreeCycle) =>
            /\ Len(result.chains) = 1
            /\ Len(result.chains[1].automations) = 3
            /\ {result.chains[1].automations[i] : i \in 1..3} = {"A", "B", "C"}

\* C8 witness: detect_circular_dependencies returned a chain for a 3-cycle
\* stored in the order C, A, B.
C8_Witness ==
    /\ result.op = "detect_circular_dependencies"
    /\ ThreeCycle
    /\ automations[1].id = "C" /\ automations[2].id = "A"
    /\ result.chains # <<>>

\* C9 (termination), as claimed: on a non-empty collection the calls nested
\* in a call of the dependency engine number at most the automations of
\* the collection.
C9_Termination ==
    automations # <<>> => Len(stack) - 1 <= Len(automations)

\* the entity ids the triggers of an automation name
TriggerEntities(target) ==
    LET target_triggers == WrapAlways(target.trigger)
    IN  UNION {EntityIds(target_triggers[i].body) : i \in DOMAIN target_triggers}

\* the relations of edges from automation s to automation t
RelationsOf(edges, s, t) ==
    {i \in DOMAIN edges : /\ edges[i].source_automation_id = automations[s].id
                          /\ edges[i].target_automation_id = automations[t].id}

Reachable(id) == {x[2] : x \in {y \in TransitiveClosure(EdgePairs) : y[1] = id}}

\* C11 (impact cascade): for a collection small enough for every path to
\* lie within the depth bound, analyze_automation_impact(id) reports as
\* affected exactly the automations reachable from id along one or more
\* dependency edges; total_affected is their number and cascade_count is
\* total_affected less the number of direct dependents.
C11_ImpactCascade ==
    (result.op = "analyze_automation_impact" /\ Len(automations) <= MaxCascadeDepth) =>
        /\ ~result.impact.error
        /\ result.impact.affected_automations = Reachable(result.arg)
        /\ result.impact.total_affected = Cardinality(Reachable(result.arg))
        /\ result.impact.cascade_count =
              result.impact.total_affected - Len(result.impact.direct_dependents)

\* C12 (impact boundary and thresholds): analyze_automation_impact never
\* returns an error result; for an automation with no outgoing edge it
\* returns direct_dependents = [], total_affected = 0 and risk_level "low";
\* risk_level is "high" exactly when more than 5 automations are affected
\* (reachable from the automation), "medium" exactly when 3 to 5 are, and
\* "low" otherwise.
C12_ImpactThresholds ==
    (result.op = "analyze_automation_impact" /\ Len(automations) <= MaxCascadeDepth) =>
        LET affected == Cardinality(Reachable(result.arg))
        IN  /\ ~result.impact.error
            /\ (\A x \in EdgePairs : x[1] # result.arg) =>
                  /\ result.impact.direct_dependents = <<>>
                  /\ result.impact.total_affected = 0
                  /\ result.impact.risk_level = "low"
            /\ result.impact.risk_level = "high" <=> affected > 5
            /\ result.impact.risk_level = "medium" <=> affected \in 3..5
            /\ result.impact.risk_level = "low" <=> affected < 3

\* The part of C12 that holds: no error result, the boundary case, and the
\* thresholds applied to the number of automations the call itself reports
\* (total_affected).
C12_ReportedThresholds ==
    result.op = "analyze_automation_impact" =>
        LET reported == result.impact.total_affected
        IN  /\ ~result.impact.error
            /\ (\A x \in EdgePairs : x[1] # result.arg) =>
                  /\ result.impact.direct_dependents = <<>>
                  /\ reported = 0
                  /\ result.impact.risk_level = "low"
            /\ result.impact.risk_level = "high" <=> reported > 5
            /\ result.impact.risk_level = "medium" <=> reported \in 3..5
            /\ result.impact.risk_level = "low" <=> reported < 3

\* the graph a new service returns from build_dependency_graph for autos
FreshGraph(autos) ==
    IF autos = <<>> THEN EmptyDependencyGraph
    ELSE LET cycles == DetectCycles(BuiltGraph(autos), autos)
         IN  [BuiltGraph(autos) EXCEPT !.circular_dependencies = cycles,
                                       !.has_circular_deps = Len(cycles) > 0]

\* what the call op(arg) returns on a new service over autos
FreshResult(op, arg, autos) ==
    [op |-> op, arg |-> arg,
     graph |-> IF op = "build_dependency_graph" THEN FreshGraph(autos)
               ELSE EmptyDependencyGraph,
     chains |-> CASE op = "detect_circular_dependencies" -> DetectCycles(FreshGraph(autos), autos)
                  [] op = "find_chains" -> FindChains(FreshGraph(autos), autos)
                  [] OTHER -> <<>>,
     impact |-> IF op = "analyze_automation_impact"
                THEN AnalyzeImpact(FreshGraph(autos), arg) ELSE NoImpact,
     execution_order |-> IF op = "simulate_execution_order"
                         THEN SimulateExecutionOrder(FreshGraph(autos), autos, arg)
                         ELSE <<>>]

\* C13 (statelessness): whatever calls and changes of the collection came
\* before, the result of every call equals what a newly constructed service
\* returns for the collection current at the call; so _dependency_cache
\* has no influence and calls on an unchanged collection agree.
C13_Statelessness ==
    result.op # "none" => result = FreshResult(result.op, result.arg, automations)

\* C13 witness: a call returned a graph with edges and a cycle after the
\* collection changed since the call before it, the cache having been
\* written by the earlier call.
C13_Witness ==
    /\ changes >= 1
    /\ requests >= 2
    /\ dependency_cache.set
    /\ result.op = "build_dependency_graph"
    /\ result.graph.total_dependencies > 0
    /\ result.graph.has_circular_deps

\* the automations of an execution order
Executed(order) == {order[i].automation_id : i \in DOMAIN order}

\* order is numbered 1..n in list position, starts with start at depth 0,
\* holds no automation twice, and each later entry is the target of an edge
\* from an earlier entry whose depth is one less
IsWalkFrom(order, start) ==
    /\ order # <<>>
    /\ \A i \in DOMAIN order : order[i].order = i
    /\ order[1].automation_id = start /\ order[1].depth = 0
    /\ \A i, j \in DOMAIN order : order[i].automation_id = order[j].automation_id => i = j
    /\ \A j \in 2..Len(order) :
          \E i \in 1..(j - 1) :
              /\ <<order[i].automation_id, order[j].automation_id>> \in EdgePairs
              /\ order[i].depth = order[j].depth - 1

\* C20 as stated (execution order): simulate_execution_order(start_id)
\* returns a list numbered 1..n whose first entry is start_id at depth 0,
\* with no automation twice, each later entry the target of an edge from an
\* earlier entry one level up, and with every automation reachable from
\* start_id in it.
C20_ExecutionOrder ==
    result.op = "simulate_execution_order" =>
        /\ IsWalkFrom(result.execution_order, result.arg)
        /\ Reachable(result.arg) \subseteq Executed(result.execution_order)

\* C20 amended (execution order within the depth limit): as C20, but the
\* list holds every automation that an entry at a depth below 10 has an edge
\* to, instead of every automation reachable from start_id; it does hold
\* every reachable automation when the collection has at most 11
\* automations.
C20_ExecutionOrderWithinDepth ==
    result.op = "simulate_execution_order" =>
        LET order == result.execution_order
        IN  /\ IsWalkFrom(order, result.arg)
            /\ \A i \in DOMAIN order :
                  order[i].depth < 10 =>
                      \A x \in EdgePairs :
                          x[1] = order[i].automation_id => x[2] \in Executed(order)
            /\ Len(automations) <= 11 => Reachable(result.arg) \subseteq Executed(order)

\* C20 witness: the walk from the head of a chain of 12 returned 11 entries,
\* the last at depth 10, and left the end of the chain out.
C20_Witness ==
    /\ result.op = "simulate_execution_order"
    /\ Len(automations) = 12
    /\ Len(result.execution_order) = 11
    /\ result.execution_order[11].depth = 10
    /\ Reachable(result.arg) \ Executed(result.execution_order) # {}

(***************************************************************************)
(* Missing fields                                                          *)
(***************************************************************************)
\* the definition has neither spelling of the field
FieldAbsent(cfg, field) ==
    CASE field = "trigger" -> cfg.trigger.f = "absent" /\ cfg.triggers.f = "absent"
      [] field = "condition" -> cfg.condition.f = "absent" /\ cfg.conditions.f = "absent"
      [] field = "action" -> cfg.action.f = "absent" /\ cfg.actions.f = "absent"

\* the positions of the edges of g with an end at a node whose id has the prefix
EdgesAt(g, prefix) ==
    {i \in DOMAIN g.edges : g.edges[i].from.prefix = prefix \/ g.edges[i].to.prefix = prefix}

\* C14 (missing-field defaults): every parse of a definition that lacks any
\* of alias, description, id, trigger, condition, action returns a graph;
\* its first node is the metadata node, labeled "Automation" when alias is
\* absent; an absent trigger, condition or action field gives no node and no
\* edge of that kind; the definition {} gives one metadata node and no edge.
C14_MissingFieldDefaults ==
    \A k \in DOMAIN returned :
        LET g == returned[k]
        IN  /\ ~g.raised
            /\ Len(g.nodes) >= 1 /\ g.nodes[1].type = COMP_TYPE_METADATA
            /\ config.alias.f = "absent" => g.nodes[1].label = "Automation"
            /\ \A field \in Fields :
                  FieldAbsent(config, field) =>
                      IdsWithPrefix(g, field, 1) = <<>> /\ EdgesAt(g, field) = {}
            /\ config = EmptyConfig => Len(g.nodes) = 1 /\ g.edges = <<>>

\* C14 witness: a definition without alias and without triggers, with an
\* action, was parsed: the graph has the default label and action nodes.
C14_Witness ==
    /\ returned # <<>>
    /\ config.alias.f = "absent" /\ config.id.f = "absent"
    /\ FieldAbsent(config, "trigger")
    /\ ~FieldAbsent(config, "action")
    /\ returned[1].nodes[1].label = DefaultAlias
    /\ IdsWithPrefix(returned[1], "action", 1) # <<>>

(***************************************************************************)
(* Items that are not mappings                                             *)
(***************************************************************************)
RECURSIVE ItemNodes(_)
RECURSIVE SequenceNodes(_, _)
RECURSIVE SectionNodes(_, _)

\* the nodes that stand for an action item: one for the item, one for each
\* branch of a choose construct, and those of the items of its sequences
ItemNodes(action) == 1 + SectionNodes(Sections(action), 1)

SequenceNodes(sequence, i) ==
    IF i > Len(sequence) THEN 0
    ELSE ItemNodes(sequence[i]) + SequenceNodes(sequence, i + 1)

SectionNodes(sections, i) ==
    IF i > Len(sections) THEN 0
    ELSE (IF sections[i].branch THEN 1 ELSE 0)
         + SequenceNodes(sections[i].sequence, 1) + SectionNodes(sections, i + 1)

\* C15 (best effort on unexpected items), as claimed: a parse of a
\* definition in which a trigger, condition, action or choose-branch item
\* is a text or None returns a graph, and the graph has one node for each
\* trigger item, each condition item, each action item and each branch,
\* the item that is no mapping included.
C15_BestEffort ==
    \A k \in DOMAIN returned :
        LET g == returned[k]
        IN  /\ ~g.raised
            /\ Len(IdsWithPrefix(g, "trigger", 1)) = NumTriggers
            /\ Len(IdsWithPrefix(g, "condition", 1)) = NumConditions
            /\ Len(IdsWithPrefix(g, "action", 1)) = SequenceNodes(ActionItems(config), 1)

\* what does hold: a text among the actions or in a nested sequence is a
\* leaf node of the returned graph; every other item that is no mapping
\* makes the call raise
C15_TextActionOnly ==
    \A k \in DOMAIN returned :
        LET g == returned[k]
        IN  IF g.raised
            THEN \/ \E i \in DOMAIN TriggerItems(config) : ~IsMapping(TriggerItems(config)[i])
                 \/ \E i \in DOMAIN ConditionItems(config) : ~IsMapping(ConditionItems(config)[i])
                 \/ config \in {Config("t", List(<<Trig>>), Absent, a) :
                                    a \in BadLists(Service, NoneItem)}
                 \/ config \in {Config("t", List(<<Trig>>), Absent, List(<<Service, x>>)) :
                                    x \in BadConstructs(NoneItem) \cup BadConstructs(TextItem)}
            ELSE /\ Len(IdsWithPrefix(g, "trigger", 1)) = NumTriggers
                 /\ Len(IdsWithPrefix(g, "condition", 1)) = NumConditions
                 /\ Len(IdsWithPrefix(g, "action", 1)) = SequenceNodes(ActionItems(config), 1)

(***************************************************************************)
(* The automation listing                                                  *)
(***************************************************************************)
\* node_count and edge_count a parser made for the one automation gives
FreshCounts(entity) ==
    LET automation_config == GetAutomationConfig(entity)
        g == ParseAutomationFresh(automation_config.cfg)
    IN  IF automation_config.found /\ ~g.raised
        THEN [node_count |-> Len(g.nodes), edge_count |-> Len(g.edges)]
        ELSE [node_count |-> 0, edge_count |-> 0]

\* the parse of the definition of the automation raises
ParseFails(entity) ==
    /\ GetAutomationConfig(entity).found
    /\ ParseAutomationFresh(GetAutomationConfig(entity).cfg).raised

\* the positions in definitions of the automations the listing shows
Shown == {i \in DOMAIN definitions : ~Skipped(definitions[i], params.enabled_only)}

\* the entry of the automation at position i of definitions is in list
ListedIn(list, i) ==
    \E k \in DOMAIN list : list[k].automation_id = definitions[i].clean_id

\* C16 (batch isolation): automation_list has one entry for each automation
\* the loop went through that has a state and passes the enabled_only
\* filter, in order; an automation whose parse fails is listed with
\* node_count 0 and edge_count 0, and every other one, parsed before or
\* after a failure on the shared parser, has the counts a fresh parser
\* gives; the response lists all of them.
C16_BatchIsolation ==
    /\ Len(automation_list) = Cardinality({i \in Shown : i <= listed})
    /\ \A i \in Shown :
          i <= listed =>
              \E k \in DOMAIN automation_list :
                  /\ k = Cardinality({j \in Shown : j <= i})
                  /\ automation_list[k].automation_id = definitions[i].clean_id
                  /\ ParseFails(definitions[i]) =>
                        automation_list[k].node_count = 0 /\ automation_list[k].edge_count = 0
                  /\ automation_list[k].node_count = FreshCounts(definitions[i]).node_count
                  /\ automation_list[k].edge_count = FreshCounts(definitions[i]).edge_count
    /\ response.sent =>
          /\ listed = Len(definitions)
          /\ response.automations = automation_list
          /\ response.total_count = Cardinality(Shown)

\* C16 witness: the response is sent, an automation whose parse fails is
\* listed with 0 and 0, and an automation after it is listed with the nodes
\* and edges of its graph.
C16_Witness ==
    /\ response.sent
    /\ \E i, j \in Shown :
          /\ i < j
          /\ ParseFails(definitions[i])
          /\ \E k \in DOMAIN response.automations :
                /\ response.automations[k].automation_id = definitions[i].clean_id
                /\ response.automations[k].node_count = 0
          /\ \E k \in DOMAIN response.automations :
                /\ response.automations[k].automation_id = definitions[j].clean_id
                /\ response.automations[k].node_count > 1
                /\ response.automations[k].edge_count > 0

(***************************************************************************)
(* Structure of a returned graph                                           *)
(***************************************************************************)
\* the ids of the nodes of g
NodeIds(g) == {g.nodes[i].id : i \in DOMAIN g.nodes}

\* the definition has a construct nested in a construct
HasNestedConstruct == \E x \in Constructs2 : config.action = List(<<x>>)

\* C17 (unique ids): in every graph returned for a definition, with
\* choose / if / parallel / repeat constructs nested in one another or not,
\* no two nodes have the same id.
C17_UniqueIds ==
    \A k \in DOMAIN returned :
        /\ DistinctIds(returned[k])
        /\ Cardinality(NodeIds(returned[k])) = Len(returned[k].nodes)

\* C17 witness: a definition with a construct nested in a construct was
\* parsed twice on the reused parser, and its graph has nine nodes or more.
C17_Witness ==
    /\ Len(returned) = 2
    /\ HasNestedConstruct
    /\ Len(returned[2].nodes) >= 9
    /\ node_counter >= 9

\* constructs with an empty nested sequence or with no body
EmptyConstructs ==
    {Repeat(Absent), Repeat(List(<<>>)), IfThen(Absent, Absent), IfThen(List(<<>>), Absent),
     Choose(List(<<>>), Absent), Choose(List(<<Choice(Absent, List(<<>>))>>), List(<<>>)),
     Parallel(List(<<>>)), Parallel(List(<<List(<<>>), OneLeaf>>))}

\* C18 (referential integrity): in every returned graph both ends of every
\* edge are ids of nodes of that graph, also when a nested sequence is
\* empty or a construct has no body.
C18_ReferentialIntegrity ==
    \A k \in DOMAIN returned :
        \A e \in DOMAIN returned[k].edges :
            /\ returned[k].edges[e].from \in NodeIds(returned[k])
            /\ returned[k].edges[e].to \in NodeIds(returned[k])

\* C18 witness: a definition whose action is a construct with an empty
\* sequence or no body was parsed, and its graph has edges.
C18_Witness ==
    /\ returned # <<>>
    /\ \E x \in EmptyConstructs : config.action = List(<<x>>)
    /\ Len(returned[1].edges) >= 2

\* the edge leads from a node of g to a node of g created later
Forward(g, edge) ==
    \E i, j \in DOMAIN g.nodes :
        g.nodes[i].id = edge.from /\ g.nodes[j].id = edge.to /\ i < j

\* C19 (acyclicity): every edge of a returned graph, the "loop" edge of a
\* repeat construct too, leads from a node created earlier to a node created
\* later; so there is no self-loop, no back edge and no cycle.
C19_Acyclicity ==
    \A k \in DOMAIN returned :
        \A e \in DOMAIN returned[k].edges : Forward(returned[k], returned[k].edges[e])

\* C19 witness: a definition with a repeat construct was parsed, and its
\* graph has a "loop" edge.
C19_Witness ==
    /\ returned # <<>>
    /\ \E x \in Constructs1 \cup Constructs2 : x.k = "repeat" /\ config.action = List(<<x>>)
    /\ Labeled(returned[1], "loop") # {}

(***************************************************************************)
(* Nested sequences of if, parallel and repeat                             *)
(***************************************************************************)
RECURSIVE ItemsIn(_, _, _)
RECURSIVE NestedIn(_, _, _)

\* the action items of sequence from item i on, and the items nested in
\* them, each with the number of its node; n is the number of the node of
\* item i (ids are numbered in creation order)
ItemsIn(sequence, i, n) ==
    IF i > Len(sequence) THEN {}
    ELSE {<<sequence[i], n>>}
         \cup NestedIn(Sections(sequence[i]), 1, n + 1)
         \cup ItemsIn(sequence, i + 1, n + ItemNodes(sequence[i]))

\* the items of the nested sequences of a construct from section s on; n is
\* the number of the next node created
NestedIn(sections, s, n) ==
    IF s > Len(sections) THEN {}
    ELSE LET start == n + (IF sections[s].branch THEN 1 ELSE 0)
         IN  ItemsIn(sections[s].sequence, 1, start)
             \cup NestedIn(sections, s + 1, start + SequenceNodes(sections[s].sequence, 1))

\* the action items of config at every nesting level, with their node numbers
ActionOccurrences == ItemsIn(ActionItems(config), 1, 2 + NumTriggers + NumConditions)

ActionId(n) == [prefix |-> "action", n |-> n]

\* the sub-sequences of a parallel action
ParallelSequences(action) ==
    LET parallel_sequences == IF action.body.f = "list" THEN action.body.v
                              ELSE <<action.body>>
    IN  [p \in DOMAIN parallel_sequences |-> WrapIfTruthy(parallel_sequences[p])]

\* the nested sequences of an if, parallel or repeat action in the order
\* they are walked, each with the label claimed for its first edge; Thread
\* gives the number N of "thread N" for the sub-sequence at position p
ClaimedSequences(action, Thread(_, _)) ==
    CASE action.k = "if" ->
            <<[items |-> WrapIfTruthy(action.body), label |-> "then"],
              [items |-> WrapIfTruthy(action.alt), label |-> "else"]>>
      [] action.k = "parallel" ->
            LET subs == ParallelSequences(action)
            IN  [p \in DOMAIN subs |->
                    [items |-> subs[p], label |-> "thread " \o ToString(Thread(subs, p))]]
      [] action.k = "repeat" -> <<[items |-> WrapIfTruthy(action.body), label |-> "loop"]>>
      [] OTHER -> <<>>

\* the number of the node of item i of a sequence whose first node is start
NodeNumber(items, i, start) == start + SequenceNodes(SubSeq(items, 1, i - 1), 1)

\* the node of every item of the sequence has one incoming edge: from the
\* construct's node with the label for the first item, unlabeled from the
\* node of the item before for every other item
SequenceLinked(g, junction, start, items, label) ==
    \A i \in DOMAIN items :
        LET to_node == ActionId(NodeNumber(items, i, start))
            from_node == IF i = 1 THEN ActionId(junction)
                         ELSE ActionId(NodeNumber(items, i - 1, start))
            incoming == {e \in DOMAIN g.edges : g.edges[e].to = to_node}
        IN  /\ Cardinality(incoming) = 1
            /\ \A e \in incoming :
                  /\ g.edges[e].from = from_node
                  /\ g.edges[e].label = IF i = 1 THEN label ELSE NoLabel

RECURSIVE NodesBefore(_, _)
\* the nodes of the sequences before sequence q
NodesBefore(seqs, q) ==
    IF q <= 1 THEN 0 ELSE SequenceNodes(seqs[q - 1].items, 1) + NodesBefore(seqs, q - 1)

\* the number of the first node of sequence q of the claimed sequences
FirstNode(seqs, q, junction) == junction + 1 + NodesBefore(seqs, q)

\* every if, parallel and repeat action of config, at any nesting level, has
\* its nested sequences linked as claimed in g
NestedLabelling(g, Thread(_, _)) ==
    \A occ \in ActionOccurrences :
        LET seqs == ClaimedSequences(occ[1], Thread)
        IN  \A q \in DOMAIN seqs :
                SequenceLinked(g, occ[2], FirstNode(seqs, q, occ[2]), seqs[q].items,
                               seqs[q].label)

\* the rank of the sub-sequence at position p among the non-empty ones
RankAmongNonEmpty(subs, p) == Cardinality({r \in 1..p : subs[r] # <<>>})

\* the position of the sub-sequence, empty sub-sequences counted
Position(subs, p) == p

\* C21 (first-edge-only labelling), as claimed: the first edge into a
\* non-empty then / else sequence is labeled "then" / "else", the first
\* edge into the N-th non-empty sub-sequence of a parallel action is
\* labeled "thread N", the first edge into a repeat body is labeled "loop",
\* and every further edge of such a sequence is unlabeled and joins the node
\* of an item to the node of the next item.
C21_FirstEdgeLabelling ==
    \A k \in DOMAIN returned : NestedLabelling(returned[k], RankAmongNonEmpty)

\* C21, amended: the same, with N the position of the sub-sequence in the
\* parallel list, empty sub-sequences counted.
C21_FirstEdgeLabellingByPosition ==
    \A k \in DOMAIN returned : NestedLabelling(returned[k], Position)

\* C21 witness: a parallel action whose first sub-sequence has two items and
\* whose second has one was parsed; the graph has the edges "thread 1" and
\* "thread 2" and an unlabeled edge between the two items.
C21_Witness ==
    /\ returned # <<>>
    /\ \E occ \in ActionOccurrences :
          /\ occ[1].k = "parallel"
          /\ Len(ParallelSequences(occ[1])) = 2
          /\ Len(ParallelSequences(occ[1])[1]) = 2
          /\ \E e \in Labeled(returned[1], "thread 2") :
                returned[1].edges[e].from = ActionId(occ[2])
          /\ \E e \in Labeled(returned[1], NoLabel) :
                /\ returned[1].edges[e].from = ActionId(occ[2] + 1)
                /\ returned[1].edges[e].to = ActionId(occ[2] + 2)

(***************************************************************************)
(* Top-level actions                                                       *)
(***************************************************************************)
\* the node of top-level action i: the node created first for the item
TopNode(i) == ActionId(NodeNumber(ActionItems(config), i, 2 + NumTriggers + NumConditions))

\* the nodes of the top-level actions
TopNodes == {TopNode(i) : i \in 1..NumActions}

\* C22 (top-level action chaining): for top-level actions a1..an the
\* expansion of each item hands back one node, the node created first for
\* it; the edges between these nodes are exactly n - 1, unlabeled, one from
\* the node of ai to the node of ai+1; no node created inside a construct
\* has an edge to a top-level action.
C22_TopLevelChaining ==
    \A k \in DOMAIN returned :
        LET g == returned[k]
            chaining == {e \in DOMAIN g.edges :
                            g.edges[e].from \in TopNodes /\ g.edges[e].to \in TopNodes}
        IN  NumActions >= 1 =>
                /\ g.action_ids = [i \in 1..NumActions |-> TopNode(i)]
                /\ Cardinality(chaining) = NumActions - 1
                /\ \A e \in chaining : g.edges[e].label = NoLabel
                /\ \A i \in 1..(NumActions - 1) :
                      \E e \in chaining :
                          g.edges[e].from = TopNode(i) /\ g.edges[e].to = TopNode(i + 1)
                /\ \A e \in DOMAIN g.edges :
                      (g.edges[e].to \in TopNodes /\ g.edges[e].from.prefix = "action") =>
                          g.edges[e].from \in TopNodes

\* C22 witness: three top-level actions, the first and the last of them
\* constructs with nested nodes, were parsed; the graph chains their nodes.
C22_Witness ==
    /\ returned # <<>>
    /\ NumActions = 3
    /\ ItemNodes(ActionItems(config)[1]) > 1
    /\ \E e \in Labeled(returned[1], NoLabel) :
          returned[1].edges[e].from = TopNode(2) /\ returned[1].edges[e].to = TopNode(3)

(***************************************************************************)
(* Counting nodes                                                          *)
(***************************************************************************)
\* the items a field holds: those of a list, the one mapping of a bare
\* mapping (empty or not), none when the key is absent
ItemsOf(x) == IF x.f = "map" THEN <<x.v[1]>> ELSE x.v

RECURSIVE ClaimedItemNodes(_)
RECURSIVE ClaimedSequenceNodes(_, _)
RECURSIVE ClaimedBranchNodes(_, _)
RECURSIVE ClaimedThreadNodes(_, _)

\* the nodes claimed for an action item: one for a leaf or an unrecognized
\* action; for a construct its own node, one node per choose branch and
\* for the default, and the nodes of its nested items
ClaimedItemNodes(action) ==
    CASE action.k = "choose" ->
            1 + ClaimedBranchNodes(ItemsOf(action.body), 1)
              + (IF action.alt.f = "absent" THEN 0
                 ELSE 1 + ClaimedSequenceNodes(ItemsOf(action.alt), 1))
      [] action.k = "if" ->
            1 + ClaimedSequenceNodes(ItemsOf(action.body), 1)
              + ClaimedSequenceNodes(ItemsOf(action.alt), 1)
      [] action.k = "parallel" ->
            1 + ClaimedThreadNodes(IF action.body.f = "list" THEN action.body.v
                                   ELSE <<action.body>>, 1)
      [] action.k = "repeat" -> 1 + ClaimedSequenceNodes(ItemsOf(action.body), 1)
      [] OTHER -> 1

ClaimedSequenceNodes(items, i) ==
    IF i > Len(items) THEN 0
    ELSE ClaimedItemNodes(items[i]) + ClaimedSequenceNodes(items, i + 1)

ClaimedBranchNodes(choices, i) ==
    IF i > Len(choices) THEN 0
    ELSE 1 + ClaimedSequenceNodes(ItemsOf(choices[i].body), 1)
           + ClaimedBranchNodes(choices, i + 1)

ClaimedThreadNodes(subs, i) ==
    IF i > Len(subs) THEN 0
    ELSE ClaimedSequenceNodes(ItemsOf(subs[i]), 1) + ClaimedThreadNodes(subs, i + 1)

\* the nodes of g of a type
OfType(g, type) == {i \in DOMAIN g.nodes : g.nodes[i].type = type}

\* C23 (no item is dropped), as claimed: a returned graph has one metadata
\* node, one trigger-typed node per trigger item, one node per top-level
\* condition item and one node per action item at every nesting level (one
\* for a leaf; for a construct its own node, one per choose branch and
\* default, and the nodes of its nested items); the number of nodes is
\* 1 + T + C + the action count.
C23_NoItemDropped ==
    \A k \in DOMAIN returned :
        LET g == returned[k]
            T == Len(ItemsOf(GetOr(config.triggers, config.trigger)))
            C == Len(ItemsOf(GetOr(config.conditions, config.condition)))
            A == ClaimedSequenceNodes(ItemsOf(GetOr(config.actions, config.action)), 1)
        IN  /\ Cardinality(OfType(g, COMP_TYPE_METADATA)) = 1
            /\ Cardinality(OfType(g, COMP_TYPE_TRIGGER)) = T
            /\ Len(IdsWithPrefix(g, "condition", 1)) = C
            /\ Len(IdsWithPrefix(g, "action", 1)) = A
            /\ Len(g.nodes) = 1 + T + C + A

\* what does hold: the same counts for the items of the lists the parser
\* iterates, in which a bare empty mapping under condition, action or a
\* nested sequence key is no item
C23_IteratedItems ==
    \A k \in DOMAIN returned :
        LET g == returned[k]
            A == SequenceNodes(ActionItems(config), 1)
        IN  /\ Cardinality(OfType(g, COMP_TYPE_METADATA)) = 1
            /\ Cardinality(OfType(g, COMP_TYPE_TRIGGER)) = NumTriggers
            /\ Len(IdsWithPrefix(g, "condition", 1)) = NumConditions
            /\ Len(IdsWithPrefix(g, "action", 1)) = A
            /\ Len(g.nodes) = 1 + NumTriggers + NumConditions + A
            /\ (config.condition # Bare(EmptyMap) /\ config.action # Bare(EmptyMap)
                /\ config.conditions # Bare(EmptyMap) /\ config.actions # Bare(EmptyMap)) =>
                  /\ NumConditions = Len(ItemsOf(GetOr(config.conditions, config.condition)))
                  /\ A = ClaimedSequenceNodes(ItemsOf(GetOr(config.actions, config.action)), 1)

(***************************************************************************)
(* Node ids                                                                *)
(***************************************************************************)
\* C27 (type-derived id prefix), as claimed: every node id of a returned
\* graph is <type>_<k> with <type> the type of the node and k its position
\* in creation order, counted from 1; also for the branch and default nodes
\* of choose and for if nodes.
C27_TypePrefix ==
    \A k \in DOMAIN returned :
        \A i \in DOMAIN returned[k].nodes :
            /\ returned[k].nodes[i].id.prefix = returned[k].nodes[i].type
            /\ returned[k].nodes[i].id.n = i

\* what does hold: k is the creation position, and the prefix is the type
\* except for the condition-typed nodes made in _process_action_recursive,
\* whose prefix is "action"
C27_PositionAndPrefix ==
    \A k \in DOMAIN returned :
        \A i \in DOMAIN returned[k].nodes :
            LET node == returned[k].nodes[i]
            IN  /\ node.id.n = i
                /\ node.id.prefix # node.type =>
                      /\ node.id.prefix = "action" /\ node.type = COMP_TYPE_CONDITION
                      /\ node.label \in {"If: condition", "Default/Else"}
                         \/ \E e \in DOMAIN returned[k].edges :
                               /\ returned[k].edges[e].to = node.id
                               /\ \E n \in 1..MaxNodes :
                                     returned[k].edges[e].label = "option " \o ToString(n)


(***************************************************************************)
(* Chains                                                                  *)
(***************************************************************************)
\* the automations that have no outgoing dependency edge and at least one
\* incoming edge
ChainEnds ==
    {x[2] : x \in {y \in EdgePairs : \A z \in EdgePairs : z[1] # y[2]}}

\* the last automations of the chains of a list
LastOf(chains) == {chains[i].automations[Len(chains[i].automations)] : i \in DOMAIN chains}

\* C24 (find_chains completeness), as claimed: in every storage order, each
\* automation with no outgoing dependency edge and at least one incoming
\* edge is the last element of a chain find_chains returns; a collection
\* whose only edge is A -> B yields the chain A, B.
C24_ChainCompleteness ==
    result.op = "find_chains" =>
        /\ ChainEnds \subseteq LastOf(result.chains)
        /\ EdgePairs = {<<"A", "B">>} =>
              \E i \in DOMAIN result.chains : result.chains[i].automations = <<"A", "B">>

\* what does hold: an automation that ends a chain is the last element of
\* a returned chain when it is stored after an automation with an edge to it
C24_ChainsOfLaterEnds ==
    result.op = "find_chains" =>
        \A t \in DOMAIN automations :
            (/\ automations[t].id \in ChainEnds
             /\ \E s \in 1..(t - 1) : <<automations[s].id, automations[t].id>> \in EdgePairs
             /\ Len(automations) <= MaxChainLength) =>
                automations[t].id \in LastOf(result.chains)

\* C25 (find_chains soundness): every chain find_chains returns lists at
\* least two automations, none twice; a dependency edge joins each to the
\* next; the last has no outgoing dependency edge; the aliases list is as
\* long as the automations list; is_circular is false.
C25_ChainSoundness ==
    result.op = "find_chains" =>
        \A c \in DOMAIN result.chains :
            LET chain == result.chains[c].automations
            IN  /\ Len(chain) >= 2
                /\ \A i, j \in DOMAIN chain : chain[i] = chain[j] => i = j
                /\ \A i \in 1..(Len(chain) - 1) : <<chain[i], chain[i + 1]>> \in EdgePairs
                /\ \A x \in EdgePairs : x[1] # chain[Len(chain)]
                /\ Len(result.chains[c].aliases) = Len(chain)
                /\ ~result.chains[c].is_circular

\* C25 witness: find_chains returned two chains that start at A and end at
\* different automations, each with the aliases of its automations.
C25_Witness ==
    /\ result.op = "find_chains"
    /\ Len(result.chains) = 2
    /\ result.chains[1].automations[1] = "A" /\ result.chains[2].automations[1] = "A"
    /\ LastOf(result.chains) = {"B", "C"}
    /\ \A c \in 1..2 : result.chains[c].aliases =
                           AliasesOf(automations, result.chains[c].automations)

(***************************************************************************)
(* Spellings and shapes of the fields the dependency engine reads          *)
(***************************************************************************)
\* the value the Parser iterates for a field: "triggers" before "trigger",
\* a value that is no list wrapped into a one-element list (a bare empty
\* mapping under "action" gives no item)
ParserTriggers(auto) == List(WrapAlways(GetOr(auto.triggers, auto.trigger)))

ParserActions(auto) == List(WrapIfTruthy(GetOr(auto.actions, auto.action)))

\* the collection spelled "trigger" / "action", each field a list
Normalized(autos) ==
    [i \in DOMAIN autos |->
        [autos[i] EXCEPT !.trigger = ParserTriggers(autos[i]), !.triggers = Absent,
                         !.action = ParserActions(autos[i]), !.actions = Absent]]

\* the collection with each field a list, under the key that holds it
ListShaped(autos) ==
    [i \in DOMAIN autos |->
        [autos[i] EXCEPT !.trigger = List(WrapAlways(@)), !.triggers = List(WrapAlways(@)),
                         !.action = List(WrapIfTruthy(@)), !.actions = List(WrapIfTruthy(@))]]

\* the dependency edges build_dependency_graph derives, as ordered pairs
PairsOf(edges) ==
    {<<edges[i].source_automation_id, edges[i].target_automation_id>> : i \in DOMAIN edges}

\* C26 (same extraction rules in both engines), as claimed: the edges
\* build_dependency_graph returns are those it derives from the collection
\* as the Parser normalizes it, that is spelled trigger / action from
\* either spelling and with one-element lists for bare mappings.
C26_SameExtraction ==
    result.op = "build_dependency_graph" =>
        PairsOf(result.graph.edges) = PairsOf(BuiltGraph(Normalized(automations)).edges)

\* what does hold: the edges are the same for a bare mapping and for the
\* one-element list of it, and they are those of the normalized collection
\* when no automation has the key "triggers" or "actions"
C26_SameForShapes ==
    result.op = "build_dependency_graph" =>
        /\ result.graph.edges = BuiltGraph(ListShaped(automations)).edges
        /\ (\A i \in DOMAIN automations :
                automations[i].triggers = Absent /\ automations[i].actions = Absent) =>
              result.graph.edges = BuiltGraph(Normalized(automations)).edges

(***************************************************************************)
(* Estimated duration                                                      *)
(***************************************************************************)
\* the start automation has depth 0 and each dependent the depth of the
\* automation it was reached from plus one
DepthsFrom(order, start) ==
    /\ order # <<>> => order[1].automation_id = start /\ order[1].depth = 0
    /\ \A j \in 2..Len(order) :
          \E i \in 1..(j - 1) :
              /\ <<order[i].automation_id, order[j].automation_id>> \in EdgePairs
              /\ order[j].depth = order[i].depth + 1

\* C28 (estimated duration), as claimed: every entry simulate_execution_order
\* returns has estimated_duration_ms equal to 100 times its depth, the start
\* automation having depth 0 and each dependent the depth of the automation
\* it was reached from plus one.
C28_EstimatedDuration ==
    result.op = "simulate_execution_order" =>
        LET order == result.execution_order
        IN  /\ DepthsFrom(order, result.arg)
            /\ \A i \in DOMAIN order : order[i].estimated_duration_ms = 100 * order[i].depth

\* C28 amended: every entry simulate_execution_order returns has
\* estimated_duration_ms equal to 100 times (its depth plus one), the start
\* automation having depth 0 and each dependent the depth of the automation
\* it was reached from plus one.
C28_EstimatedDurationPlusOne ==
    result.op = "simulate_execution_order" =>
        LET order == result.execution_order
        IN  /\ DepthsFrom(order, result.arg)
            /\ \A i \in DOMAIN order :
                  order[i].estimated_duration_ms = 100 * (order[i].depth + 1)

\* C28 witness: the walk returned the start automation with 100 ms and
\* dependents at depths 1 and 2 with 200 ms and 300 ms.
C28_Witness ==
    /\ result.op = "simulate_execution_order"
    /\ Len(result.execution_order) = 3
    /\ \A i \in 1..3 : /\ result.execution_order[i].depth = i - 1
                        /\ result.execution_order[i].estimated_duration_ms = 100 * i

(***************************************************************************)
(* Reported cycles                                                         *)
(***************************************************************************)
\* the automations of a chain
Members(chain) == {chain.automations[i] : i \in DOMAIN chain.automations}

\* C30 (disjoint cycle reports): in a list detect_circular_dependencies
\* returns no chain holds an automation twice and no automation is in two
\* chains, so no cycle is reported twice and twice the number of chains is
\* at most the number of automations.
C30_DisjointCycles ==
    \A chains \in DetectedLists :
        /\ \A c \in DOMAIN chains :
              \A i, j \in DOMAIN chains[c].automations :
                  chains[c].automations[i] = chains[c].automations[j] => i = j
        /\ \A c, d \in DOMAIN chains : c # d => Members(chains[c]) \cap Members(chains[d]) = {}
        /\ \A c, d \in DOMAIN chains : c # d => chains[c].automations # chains[d].automations
        /\ 2 * Len(chains) <= Len(automations)

\* C30 witness: detect_circular_dependencies returned two chains, the
\* cycles A <-> B and C <-> D, although an edge leads from one to the other.
C30_Witness ==
    /\ result.op = "detect_circular_dependencies"
    /\ Len(result.chains) = 2
    /\ {Members(result.chains[c]) : c \in 1..2} = {{"A", "B"}, {"C", "D"}}
    /\ <<"C", "A">> \in EdgePairs

(***************************************************************************)
(* Aggregates of the dependency graph                                      *)
(***************************************************************************)
\* every graph build_dependency_graph has returned: to a caller (the frames
\* that are done) and to the client
ReturnedGraphs ==
    {stack[i].graph : i \in {j \in DOMAIN stack : stack[j].op = "build_dependency_graph"
                                                    /\ stack[j].pc = "done"}}
        \cup (IF result.op = "build_dependency_graph" THEN {result.graph} ELSE {})

\* nodes, edges, counters and the cycle flag of g fit the collection
CountsConsistent(g) ==
    /\ Len(g.nodes) = Len(automations)
    /\ \A i \in DOMAIN g.nodes : g.nodes[i] = automations[i].id
    /\ \A i \in DOMAIN g.edges :
          /\ \E n \in DOMAIN g.nodes : g.nodes[n] = g.edges[i].source_automation_id
          /\ \E n \in DOMAIN g.nodes : g.nodes[n] = g.edges[i].target_automation_id
    /\ g.total_automations = Len(g.nodes)
    /\ g.total_dependencies = Len(g.edges)
    /\ g.has_circular_deps <=> g.circular_dependencies # <<>>
    /\ automations = <<>> =>
          /\ g.total_automations = 0 /\ g.total_dependencies = 0
          /\ g.avg_chain_length = FloatZero /\ g.critical_path_length = 0
          /\ g.nodes = <<>> /\ g.edges = <<>> /\ g.chains = <<>>
          /\ g.circular_dependencies = <<>>

\* C29 (aggregate consistency), as claimed: in every graph
\* build_dependency_graph returns, nodes are the automation ids of the
\* collection, the ends of every edge are nodes, total_automations and
\* total_dependencies count nodes and edges, has_circular_deps is true
\* exactly when circular_dependencies is not empty, all counters are 0 and
\* all lists empty for an empty collection, and avg_chain_length times
\* total_automations equals total_dependencies.
C29_AggregateConsistency ==
    \A g \in ReturnedGraphs :
        /\ CountsConsistent(g)
        /\ FloatTimes(g.avg_chain_length, g.total_automations)
              = FloatOfInt(g.total_dependencies)

\* C29 amended: as C29, but avg_chain_length is the float quotient
\* total_dependencies / total_automations (0.0 for an empty collection),
\* and for the graph the client gets its product with total_automations is
\* total_dependencies or one of the two floats next to it.
C29_AggregatesWithRoundedAverage ==
    /\ \A g \in ReturnedGraphs :
          /\ CountsConsistent(g)
          /\ g.avg_chain_length =
                IF g.total_automations > 0
                THEN FloatDiv(g.total_dependencies, g.total_automations)
                ELSE FloatZero
    /\ (result.op = "build_dependency_graph" /\ result.graph.total_dependencies > 0) =>
          LET exact == FloatOfInt(result.graph.total_dependencies)
          IN  FloatTimes(result.graph.avg_chain_length, result.graph.total_automations)
                  \in {NextDown(exact), exact, NextUp(exact)}

\* C29 witness: build_dependency_graph returned for 7 automations with 29
\* dependencies and a cycle; the product of the average with 7 is the float
\* next above 29.
C29_Witness ==
    /\ result.op = "build_dependency_graph"
    /\ result.graph.total_automations = 7
    /\ result.graph.total_dependencies = 29
    /\ result.graph.has_circular_deps
    /\ FloatTimes(result.graph.avg_chain_length, 7) = NextUp(FloatOfInt(29))

====
